---- MODULE Spec2Model ----
(***************************************************************************)
(* Model of the inventory calculation engine, src/src/utils/calculations.js *)
(* (validateItem, calculateDaysLeft, calculateReorderSuggestions,          *)
(* optimizeShoppingList, the savings calculators, generateSmartReorderPlan)*)
(*                                                                         *)
(* JavaScript values are modelled as tagged records so that undefined,     *)
(* null, NaN and the infinities stay distinct from ordinary numbers;       *)
(* ordinary numbers are exact rationals n/d in lowest terms with d > 0.    *)
(***************************************************************************)
EXTENDS Integers, Sequences, FiniteSets, TLC

VARIABLES inventory, suggestions, op, args, result,
          predictionModel, predictCalls,
          contextInventory, notifications, newNotificationsCount, shoppingCart

\* the state of a caller of the calculation functions
engineVars == <<inventory, suggestions, op, args, result>>

\* the prediction singleton with its pending calls, and the state of the
\* React components (InventoryContext, Notification, ReorderSuggestions)
componentVars ==
  <<predictionModel, predictCalls, contextInventory, notifications,
    newNotificationsCount, shoppingCart>>

vars == <<engineVars, componentVars>>

(***************************************************************************)
(* JavaScript values                                                       *)
(***************************************************************************)
U == [t |-> "undef"]

Null == [t |-> "null"]

NaN == [t |-> "nan"]

PInf == [t |-> "inf"]

NInf == [t |-> "ninf"]

Bool(b) == [t |-> "bool", b |-> b]

Abs(x) == IF x < 0 THEN -x ELSE x

RECURSIVE GCD(_, _)
GCD(a, b) == IF b = 0 THEN a ELSE GCD(b, a % b)

\* the rational n/d (d # 0) in lowest terms with a positive denominator
Num(n, d) ==
  LET g == GCD(Abs(n), Abs(d))
      s == IF d < 0 THEN -1 ELSE 1
  IN  [t |-> "num", n |-> (s * n) \div g, d |-> (s * d) \div g]

Whole(n) == [t |-> "num", n |-> n, d |-> 1]

\* typeof v === 'number'
IsNumberType(v) == v.t \in {"num", "nan", "inf", "ninf"}

\* ToNumber: undefined -> NaN, null -> 0, false -> 0, true -> 1
ToNumber(v) ==
  CASE v.t = "undef" -> NaN
    [] v.t = "null" -> Whole(0)
    [] v.t = "bool" -> IF v.b THEN Whole(1) ELSE Whole(0)
    [] OTHER -> v

\* isNaN(v)
IsNaN(v) == ToNumber(v).t = "nan"

\* ToBoolean
Truthy(v) ==
  CASE v.t = "num" -> v.n # 0
    [] v.t \in {"inf", "ninf"} -> TRUE
    [] v.t = "bool" -> v.b
    [] OTHER -> FALSE

\* -1, 0, 1 for a number that is not NaN
Sign(v) ==
  CASE v.t = "inf" -> 1
    [] v.t = "ninf" -> -1
    [] OTHER -> IF v.n > 0 THEN 1 ELSE IF v.n < 0 THEN -1 ELSE 0

SignedInf(s) == IF s > 0 THEN PInf ELSE NInf

\* a * b
Mul(x, y) ==
  LET a == ToNumber(x)
      b == ToNumber(y)
  IN  IF a.t = "nan" \/ b.t = "nan" THEN NaN
      ELSE IF a.t = "num" /\ b.t = "num" THEN Num(a.n * b.n, a.d * b.d)
      ELSE IF Sign(a) = 0 \/ Sign(b) = 0 THEN NaN
      ELSE SignedInf(Sign(a) * Sign(b))

\* a / b
Div(x, y) ==
  LET a == ToNumber(x)
      b == ToNumber(y)
  IN  IF a.t = "nan" \/ b.t = "nan" THEN NaN
      ELSE IF a.t = "num" /\ b.t = "num"
           THEN IF b.n # 0 THEN Num(a.n * b.d, a.d * b.n)
                ELSE IF a.n = 0 THEN NaN ELSE SignedInf(Sign(a))
      ELSE IF a.t = "num" THEN Whole(0)
      ELSE IF b.t = "num"
           THEN SignedInf(Sign(a) * (IF Sign(b) < 0 THEN -1 ELSE 1))
      ELSE NaN

\* a + b
Add(x, y) ==
  LET a == ToNumber(x)
      b == ToNumber(y)
  IN  IF a.t = "nan" \/ b.t = "nan" THEN NaN
      ELSE IF a.t = "num" /\ b.t = "num"
           THEN Num(a.n * b.d + b.n * a.d, a.d * b.d)
      ELSE IF a.t = "num" THEN b
      ELSE IF b.t = "num" THEN a
      ELSE IF a.t = b.t THEN a ELSE NaN

Neg(x) == Mul(x, Whole(-1))

\* a - b
Sub(x, y) == Add(x, Neg(y))

\* a <= b  (false as soon as one side converts to NaN)
Le(x, y) ==
  LET a == ToNumber(x)
      b == ToNumber(y)
  IN  IF a.t = "nan" \/ b.t = "nan" THEN FALSE
      ELSE IF a.t = "num" /\ b.t = "num" THEN a.n * b.d <= b.n * a.d
      ELSE IF a.t = b.t THEN TRUE
      ELSE a.t = "ninf" \/ b.t = "inf"

\* a < b
Lt(x, y) ==
  LET a == ToNumber(x)
      b == ToNumber(y)
  IN  IF a.t = "nan" \/ b.t = "nan" THEN FALSE
      ELSE IF a.t = "num" /\ b.t = "num" THEN a.n * b.d < b.n * a.d
      ELSE IF a.t = b.t THEN FALSE
      ELSE a.t = "ninf" \/ b.t = "inf"

\* a >= b
Ge(x, y) == Le(y, x)

\* a > b
Gt(x, y) == Lt(y, x)

\* a === b on the values modelled here (NaN is not equal to itself)
StrictEq(x, y) == x.t # "nan" /\ x = y

\* Math.ceil
Ceil(x) ==
  LET a == ToNumber(x)
  IN  IF a.t = "num" THEN Whole(-((-a.n) \div a.d)) ELSE a

\* Math.max(a, b)
MathMax(x, y) ==
  LET a == ToNumber(x)
      b == ToNumber(y)
  IN  IF a.t = "nan" \/ b.t = "nan" THEN NaN
      ELSE IF Le(a, b) THEN b ELSE a

\* a || b
OrElse(x, y) == IF Truthy(x) THEN x ELSE y

\* a finite integer (Number.isInteger)
IsInteger(v) == v.t = "num" /\ v.d = 1

\* the sum of a sequence of numbers, starting from 0 as reduce(..., 0) does
RECURSIVE sumRange(_, _, _)
sumRange(s, lo, hi) ==
  IF lo > hi THEN Whole(0)
  ELSE IF lo = hi THEN Add(Whole(0), s[lo])
  ELSE LET mid == (lo + hi) \div 2
       IN  Add(sumRange(s, lo, mid), sumRange(s, mid + 1, hi))

sumSeq(s) == sumRange(s, 1, Len(s))

(***************************************************************************)
(* Items.  One record shape serves inventory items and the suggestions      *)
(* derived from them; a field the JavaScript object does not have is U (or  *)
(* "" for a string field).  jstype tells an object from a null entry or a   *)
(* primitive that sits in the array instead of an object.                   *)
(***************************************************************************)
Blank ==
  [jstype |-> "object", id |-> 0, name |-> "", quantity |-> U,
   minThreshold |-> U, category |-> "", purchaseFrequency |-> "",
   price |-> U, dailyConsumptionRate |-> U, optimalOrderQuantity |-> U,
   hasSubscription |-> FALSE, store |-> "", essential |-> U,
   daysLeft |-> U, confidence |-> U, suggestedOrderQuantity |-> U,
   bulkRecommended |-> U, subscriptionEligible |-> U, urgency |-> "",
   consumptionRate |-> U, bulkOrderRecommended |-> U,
   regularOrderQuantity |-> U, bulkOrderQuantity |-> U,
   bulkOrderSavings |-> U, aisle |-> U, orderQuantity |-> U,
   replenishmentTime |-> U, historyLength |-> 0]

NullEntry == [Blank EXCEPT !.jstype = "null"]

PrimitiveEntry == [Blank EXCEPT !.jstype = "primitive"]

\* a collection argument: an array of entries, or something that is no array
Array(s) == [kind |-> "array", elems |-> s]

NullCollection == [kind |-> "null", elems |-> <<>>]

UndefinedCollection == [kind |-> "undefined", elems |-> <<>>]

ObjectCollection == [kind |-> "object", elems |-> <<>>]

\* !coll || !Array.isArray(coll) || coll.length === 0
EmptyOrInvalid(coll) == coll.kind # "array" \/ Len(coll.elems) = 0

(***************************************************************************)
(* validateItem                                                            *)
(***************************************************************************)
validFrequencies == {"daily", "weekly", "biweekly", "monthly", "asNeeded"}

\* requiredFields.filter(field => !item[field])
missingFields(item) ==
  {f \in {"name", "quantity", "category"} :
     CASE f = "name" -> item.name = ""
       [] f = "quantity" -> ~Truthy(item.quantity)
       [] OTHER -> item.category = ""}

validateItem(item) ==
  IF item.jstype = "null" THEN [valid |-> FALSE, error |-> "undefined or null"]
  ELSE IF item.jstype # "object"
    THEN [valid |-> FALSE, error |-> "must be an object"]
  ELSE IF missingFields(item) # {}
    THEN [valid |-> FALSE, error |-> "missing required fields"]
  ELSE IF ~IsNumberType(item.quantity) \/ IsNaN(item.quantity)
    THEN [valid |-> FALSE, error |-> "quantity must be a number"]
  ELSE IF Truthy(item.price)
          /\ (~IsNumberType(item.price) \/ IsNaN(item.price))
    THEN [valid |-> FALSE, error |-> "price must be a number"]
  ELSE IF Truthy(item.minThreshold)
          /\ (~IsNumberType(item.minThreshold) \/ IsNaN(item.minThreshold))
    THEN [valid |-> FALSE, error |-> "minimum threshold must be a number"]
  ELSE IF item.purchaseFrequency # ""
          /\ item.purchaseFrequency \notin validFrequencies
    THEN [valid |-> FALSE, error |-> "invalid purchase frequency"]
  ELSE [valid |-> TRUE, error |-> ""]

(***************************************************************************)
(* calculateDaysLeft                                                       *)
(***************************************************************************)
\* the fallback divisor of the daily rate, minThreshold / 14
FallbackDays == 14

\* item.dailyConsumptionRate || (item.minThreshold / 14)
dailyRate(item) ==
  OrElse(item.dailyConsumptionRate, Div(item.minThreshold, Whole(FallbackDays)))

\* the estimate rounded down instead of up
calculateDaysLeftFloor(item) ==
  IF item.jstype = "null" THEN Whole(0)
  ELSE IF Le(item.quantity, Whole(0)) THEN Whole(0)
  ELSE Neg(Ceil(Neg(Div(item.quantity, dailyRate(item)))))

calculateDaysLeft(item) ==
  IF item.jstype = "null" THEN Whole(0)
  ELSE IF Le(item.quantity, Whole(0)) THEN Whole(0)
  ELSE Ceil(Div(item.quantity, dailyRate(item)))

\* calculateDaysLeft returns a Number; reading a property such as .daysLeft,
\* .confidence or .dailyConsumptionRate of a Number gives undefined
NumberProperty(v, p) == U

(***************************************************************************)
(* calculateReorderSuggestions                                             *)
(***************************************************************************)
DefaultNotificationThreshold == 7

DefaultBulkPurchaseThreshold == 3

\* the defaults of the options destructuring
DefaultSuggestOptions ==
  [notificationThreshold |-> Whole(DefaultNotificationThreshold),
   includeAlmostEmpty |-> TRUE, includeBelowThreshold |-> TRUE,
   includeOutOfStock |-> TRUE,
   bulkPurchaseThreshold |-> Whole(DefaultBulkPurchaseThreshold)]

\* the filter callback: does the item need attention?
needsAttention(item, o) ==
  IF ~validateItem(item).valid THEN FALSE
  ELSE IF o.includeOutOfStock /\ StrictEq(item.quantity, Whole(0)) THEN TRUE
  ELSE IF o.includeBelowThreshold /\ Le(item.quantity, item.minThreshold)
    THEN TRUE
  ELSE IF o.includeAlmostEmpty
    THEN Le(NumberProperty(calculateDaysLeft(item), "daysLeft"),
            o.notificationThreshold)
  ELSE FALSE

\* Math.max(1, item.minThreshold || 1)
baseQuantity(item) == MathMax(Whole(1), OrElse(item.minThreshold, Whole(1)))

\* the order quantity before rounding
rawOrderQuantity(item) ==
  IF Truthy(item.optimalOrderQuantity) THEN item.optimalOrderQuantity
  ELSE CASE item.purchaseFrequency = "daily" ->
              Mul(baseQuantity(item), Whole(3))
         [] item.purchaseFrequency = "weekly" ->
              Mul(baseQuantity(item), Whole(2))
         [] item.purchaseFrequency = "biweekly" ->
              Ceil(Mul(baseQuantity(item), Num(3, 2)))
         [] item.purchaseFrequency = "monthly" ->
              Mul(baseQuantity(item), Num(6, 5))
         [] OTHER -> baseQuantity(item)

\* the rounding without its lower bound of 1
roundedOrderQuantityNoFloor(item) == Ceil(rawOrderQuantity(item))

\* Math.max(1, Math.ceil(suggestedOrderQuantity))
roundedOrderQuantity(item) == MathMax(Whole(1), Ceil(rawOrderQuantity(item)))

\* the urgency level of a selected item
urgencyOf(item, daysLeftInfo) ==
  IF StrictEq(item.quantity, Whole(0)) THEN "critical"
  ELSE IF Le(item.quantity, item.minThreshold) THEN "high"
  ELSE IF Le(NumberProperty(daysLeftInfo, "daysLeft"), Whole(3)) THEN "medium"
  ELSE "low"

\* the map callback: the suggestion built from a selected item
toSuggestion(item, o) ==
  LET daysLeftInfo == calculateDaysLeft(item)
  IN  [item EXCEPT
         !.daysLeft = NumberProperty(daysLeftInfo, "daysLeft"),
         !.confidence = NumberProperty(daysLeftInfo, "confidence"),
         !.suggestedOrderQuantity = roundedOrderQuantity(item),
         !.bulkRecommended =
            Bool(Ge(rawOrderQuantity(item), o.bulkPurchaseThreshold)),
         !.subscriptionEligible =
            Bool(item.purchaseFrequency # ""
                 /\ item.purchaseFrequency # "asNeeded"
                 /\ ~item.hasSubscription),
         !.urgency = urgencyOf(item, daysLeftInfo),
         !.consumptionRate =
            NumberProperty(daysLeftInfo, "dailyConsumptionRate")]

\* s.filter(P) for the selection predicate
filterAttention(s, o) == SelectSeq(s, LAMBDA item : needsAttention(item, o))

\* the number of entries of s whose urgency is u
countUrgency(s, u) == Cardinality({i \in 1..Len(s) : s[i].urgency = u})

\* what calculateSubscriptionSavings returns; a key it leaves out is U
NoSubscriptionSavings ==
  [totalSavings |-> U, itemizedSavings |-> <<>>, recommendedItems |-> U,
   totalAnnualSavings |-> U]

\* the outcome of a call: threw tells an exception that reached the caller
\* from a returned value; the other fields hold what was returned
NoResult ==
  [kind |-> "none", threw |-> FALSE, success |-> FALSE, value |-> U,
   items |-> <<>>, estimatedTotalCost |-> U, potentialBulkSavings |-> U,
   batches |-> <<>>, criticalItems |-> 0, highPriorityItems |-> 0,
   subscription |-> NoSubscriptionSavings]

Thrown(kind) == [NoResult EXCEPT !.kind = kind, !.threw = TRUE]

calculateReorderSuggestions(inv, o) ==
  IF EmptyOrInvalid(inv)
  THEN [NoResult EXCEPT !.kind = "suggest"]
  ELSE LET selected == filterAttention(inv.elems, o)
           suggestedItems ==
             [i \in 1..Len(selected) |-> toSuggestion(selected[i], o)]
       IN  [NoResult EXCEPT !.kind = "suggest", !.success = TRUE,
              !.items = suggestedItems,
              !.criticalItems = countUrgency(suggestedItems, "critical"),
              !.highPriorityItems = countUrgency(suggestedItems, "high")]

(***************************************************************************)
(* calculateBulkSavings                                                    *)
(***************************************************************************)
\* the discount rate by quantity alone, without the category rates
bulkDiscountRateNoCategory(item, orderQuantity) ==
  IF Ge(orderQuantity, Whole(10)) THEN Num(15, 100)
  ELSE IF Ge(orderQuantity, Whole(5)) THEN Num(12, 100)
  ELSE IF Ge(orderQuantity, Whole(3)) THEN Num(10, 100)
  ELSE Whole(0)

\* the discount rate of one cart item
bulkDiscountRate(item, orderQuantity) ==
  LET byQuantity ==
        IF Ge(orderQuantity, Whole(10)) THEN Num(15, 100)
        ELSE IF Ge(orderQuantity, Whole(5)) THEN Num(12, 100)
        ELSE IF Ge(orderQuantity, Whole(3)) THEN Num(10, 100)
        ELSE Whole(0)
  IN  IF item.category = "grocery" /\ Ge(orderQuantity, Whole(3))
        THEN MathMax(byQuantity, Num(8, 100))
      ELSE IF item.category = "household" /\ Ge(orderQuantity, Whole(3))
        THEN MathMax(byQuantity, Num(12, 100))
      ELSE IF item.category = "electronics" /\ Ge(orderQuantity, Whole(2))
        THEN MathMax(byQuantity, Num(5, 100))
      ELSE byQuantity

\* the reduce callback: the savings of one item (0 without a price)
itemBulkSavings(item) ==
  LET orderQuantity ==
        OrElse(item.orderQuantity, OrElse(item.suggestedOrderQuantity, Whole(1)))
  IN  IF ~Truthy(item.price) \/ IsNaN(item.price) THEN Whole(0)
      ELSE Mul(Mul(item.price, orderQuantity),
               bulkDiscountRate(item, orderQuantity))

sumBulkSavings(s) == sumSeq([i \in 1..Len(s) |-> itemBulkSavings(s[i])])

calculateBulkSavings(cartItems) ==
  IF EmptyOrInvalid(cartItems) THEN Whole(0)
  ELSE sumBulkSavings(cartItems.elems)

(***************************************************************************)
(* calculateSubscriptionSavings                                            *)
(***************************************************************************)
subscriptionEligible(item) ==
  /\ ~item.hasSubscription
  /\ \/ item.purchaseFrequency # "" /\ item.purchaseFrequency # "asNeeded"
     \/ item.historyLength >= 3

filterSubscription(s) == SelectSeq(s, subscriptionEligible)

subscriptionRate(item) ==
  CASE item.category = "grocery" -> Num(10, 100)
    [] item.category = "household" -> Num(15, 100)
    [] item.category = "personal" -> Num(12, 100)
    [] item.category = "electronics" -> Num(5, 100)
    [] OTHER -> Num(15, 100)

annualPurchases(item) ==
  CASE item.purchaseFrequency = "daily" -> Whole(365)
    [] item.purchaseFrequency = "weekly" -> Whole(52)
    [] item.purchaseFrequency = "biweekly" -> Whole(26)
    [] item.purchaseFrequency = "monthly" -> Whole(12)
    [] OTHER -> Whole(6)

\* the map callback: one line of the itemization
itemSubscriptionSavings(item) ==
  LET orderQuantity ==
        OrElse(item.orderQuantity, OrElse(item.suggestedOrderQuantity, Whole(1)))
      savings == Mul(Mul(item.price, orderQuantity), subscriptionRate(item))
      annualSavings == Mul(savings, annualPurchases(item))
  IN  IF ~Truthy(item.price) \/ IsNaN(item.price)
      THEN [itemId |-> item.id, savings |-> Whole(0), recommended |-> FALSE,
            annualSavings |-> Whole(0)]
      ELSE [itemId |-> item.id, savings |-> savings,
            recommended |-> Ge(annualSavings, Whole(20)),
            annualSavings |-> annualSavings]

sumField(s, annual) ==
  sumSeq([i \in 1..Len(s) |->
            IF annual THEN s[i].annualSavings ELSE s[i].savings])

calculateSubscriptionSavings(cartItems) ==
  IF EmptyOrInvalid(cartItems)
  THEN [NoSubscriptionSavings EXCEPT !.totalSavings = Whole(0),
                                     !.recommendedItems = Whole(0)]
  ELSE LET eligible == filterSubscription(cartItems.elems)
           itemized ==
             [i \in 1..Len(eligible) |-> itemSubscriptionSavings(eligible[i])]
       IN  [totalSavings |-> sumField(itemized, FALSE),
            itemizedSavings |-> itemized,
            recommendedItems |->
              Whole(Cardinality({i \in 1..Len(itemized) :
                                   itemized[i].recommended})),
            totalAnnualSavings |-> sumField(itemized, TRUE)]

(***************************************************************************)
(* optimizeShoppingList                                                    *)
(***************************************************************************)
\* the defaults of the options destructuring
DefaultOptimizeOptions ==
  [preference |-> "balanced", maxItems |-> Null, budget |-> Null,
   preferredStores |-> <<>>, includeNonEssentials |-> TRUE]

\* JSON.parse(JSON.stringify(v)): NaN and the infinities come back as null,
\* an undefined property is dropped
jsonValue(v) == IF v.t \in {"nan", "inf", "ninf"} THEN Null ELSE v

jsonClone(item) ==
  [item EXCEPT
     !.quantity = jsonValue(@), !.minThreshold = jsonValue(@),
     !.price = jsonValue(@), !.dailyConsumptionRate = jsonValue(@),
     !.optimalOrderQuantity = jsonValue(@), !.daysLeft = jsonValue(@),
     !.confidence = jsonValue(@), !.suggestedOrderQuantity = jsonValue(@),
     !.consumptionRate = jsonValue(@), !.aisle = jsonValue(@),
     !.orderQuantity = jsonValue(@), !.regularOrderQuantity = jsonValue(@),
     !.bulkOrderQuantity = jsonValue(@), !.bulkOrderSavings = jsonValue(@)]

\* the label given to an item that has none
essentialByRule(item) ==
  IF StrictEq(item.quantity, Whole(0)) \/ Le(item.quantity, item.minThreshold)
  THEN TRUE
  ELSE \/ item.purchaseFrequency = "daily"
       \/ item.purchaseFrequency = "weekly"
       \/ item.category = "grocery"
       \/ item.category = "household"
       \/ item.urgency = "high"
       \/ item.urgency = "critical"

\* the callback without the hasOwnProperty test: every item is labelled anew
labelEssentialAnew(item) ==
  [item EXCEPT !.essential = Bool(essentialByRule(item))]

\* the forEach callback: keep an existing label, otherwise set it
labelEssential(item) ==
  IF item.essential # U THEN item
  ELSE [item EXCEPT !.essential = Bool(essentialByRule(item))]

filterEssential(s, wanted) ==
  SelectSeq(s, LAMBDA item : Truthy(item.essential) = wanted)

\* the collation order of the strings the model uses (String localeCompare)
Collation ==
  <<"", "electronics", "general", "grocery", "household", "office",
    "personal", "store-a", "store-b", "store-c">>

collationRank(str) == CHOOSE k \in 1..Len(Collation) : Collation[k] = str

localeCompare(x, y) == Whole(collationRank(x) - collationRank(y))

\* preferredStores.indexOf(store), -1 when absent
indexOf(stores, store) ==
  IF \E k \in 1..Len(stores) : stores[k] = store
  THEN (CHOOSE k \in 1..Len(stores) :
          stores[k] = store /\ \A j \in 1..(k - 1) : stores[j] # store) - 1
  ELSE -1

\* what evaluating a comparator gives: a number, or a TypeError
Throw == [t |-> "throw"]

\* this._getUrgencyValue / this._getUrgencyTier inside the arrow function:
\* `this` of a module-level arrow function is undefined, so the property
\* read throws a TypeError
thisHelperCall(v) == Throw

\* price / suggestedOrderQuantity, 0 when one of them is missing
efficiency(a) ==
  IF Truthy(a.price) /\ Truthy(a.suggestedOrderQuantity)
  THEN Div(a.price, a.suggestedOrderQuantity) ELSE Whole(0)

\* a.category.localeCompare(b.category); a missing category has no method
compareCategory(a, b) ==
  IF a.category = "" THEN Throw ELSE localeCompare(a.category, b.category)

\* the time comparator without its first key, the essential label
compareTimeByStore(a, b, preferredStores) ==
  LET aStoreIndex == indexOf(preferredStores, a.store)
      bStoreIndex == indexOf(preferredStores, b.store)
  IN  IF Len(preferredStores) > 0 /\ aStoreIndex # -1 /\ bStoreIndex # -1
        THEN Whole(aStoreIndex - bStoreIndex)
      ELSE IF Len(preferredStores) > 0 /\ aStoreIndex # -1 THEN Whole(-1)
      ELSE IF Len(preferredStores) > 0 /\ bStoreIndex # -1 THEN Whole(1)
      ELSE IF a.store # b.store /\ a.store # "" /\ b.store # ""
        THEN localeCompare(a.store, b.store)
      ELSE IF a.category # b.category THEN compareCategory(a, b)
      ELSE IF Truthy(a.aisle) /\ Truthy(b.aisle) /\ a.aisle # b.aisle
        THEN Sub(a.aisle, b.aisle)
      ELSE Whole(0)

compareTime(a, b, preferredStores) ==
  LET aStoreIndex == indexOf(preferredStores, a.store)
      bStoreIndex == indexOf(preferredStores, b.store)
  IN  IF Truthy(a.essential) /\ ~Truthy(b.essential) THEN Whole(-1)
      ELSE IF ~Truthy(a.essential) /\ Truthy(b.essential) THEN Whole(1)
      ELSE IF Len(preferredStores) > 0 /\ aStoreIndex # -1 /\ bStoreIndex # -1
        THEN Whole(aStoreIndex - bStoreIndex)
      ELSE IF Len(preferredStores) > 0 /\ aStoreIndex # -1 THEN Whole(-1)
      ELSE IF Len(preferredStores) > 0 /\ bStoreIndex # -1 THEN Whole(1)
      ELSE IF a.store # b.store /\ a.store # "" /\ b.store # ""
        THEN localeCompare(a.store, b.store)
      ELSE IF a.category # b.category THEN compareCategory(a, b)
      ELSE IF Truthy(a.aisle) /\ Truthy(b.aisle) /\ a.aisle # b.aisle
        THEN Sub(a.aisle, b.aisle)
      ELSE Whole(0)

\* optimizeShoppingList._getUrgencyValue
getUrgencyValue(urgency) ==
  CASE urgency = "critical" -> Whole(4)
    [] urgency = "high" -> Whole(3)
    [] urgency = "medium" -> Whole(2)
    [] urgency = "low" -> Whole(1)
    [] OTHER -> Whole(0)

\* optimizeShoppingList._getUrgencyTier
getUrgencyTier(item) ==
  IF StrictEq(item.quantity, Whole(0)) THEN Whole(0)
  ELSE IF Le(item.quantity, item.minThreshold) THEN Whole(1)
  ELSE IF Le(item.daysLeft, Whole(3)) THEN Whole(2)
  ELSE IF Le(item.daysLeft, Whole(7)) THEN Whole(3)
  ELSE Whole(4)

compareCost(a, b) ==
  IF Truthy(a.essential) /\ ~Truthy(b.essential) THEN Whole(-1)
  ELSE IF ~Truthy(a.essential) /\ Truthy(b.essential) THEN Whole(1)
  ELSE IF a.store # b.store /\ a.store # "" /\ b.store # ""
    THEN localeCompare(a.store, b.store)
  ELSE IF a.category # b.category THEN compareCategory(a, b)
  ELSE IF Truthy(efficiency(a)) /\ Truthy(efficiency(b))
    THEN Sub(efficiency(a), efficiency(b))
  ELSE LET bValue == thisHelperCall(getUrgencyValue(b.urgency))
           aValue == thisHelperCall(getUrgencyValue(a.urgency))
       IN  IF bValue = Throw \/ aValue = Throw THEN Throw
           ELSE Sub(bValue, aValue)

compareUrgent(a, b) ==
  LET aUrgencyValue == thisHelperCall(getUrgencyValue(a.urgency))
      bUrgencyValue == thisHelperCall(getUrgencyValue(b.urgency))
  IN  IF aUrgencyValue = Throw \/ bUrgencyValue = Throw THEN Throw
      ELSE IF aUrgencyValue # bUrgencyValue
        THEN Sub(bUrgencyValue, aUrgencyValue)
      ELSE IF StrictEq(a.quantity, Whole(0)) /\ ~StrictEq(b.quantity, Whole(0))
        THEN Whole(-1)
      ELSE IF ~StrictEq(a.quantity, Whole(0)) /\ StrictEq(b.quantity, Whole(0))
        THEN Whole(1)
      ELSE Sub(a.daysLeft, b.daysLeft)

compareBalanced(a, b, preferredStores) ==
  LET aUrgencyTier == thisHelperCall(getUrgencyTier(a))
      bUrgencyTier == thisHelperCall(getUrgencyTier(b))
      aStoreIndex == indexOf(preferredStores, a.store)
      bStoreIndex == indexOf(preferredStores, b.store)
  IN  IF aUrgencyTier = Throw \/ bUrgencyTier = Throw THEN Throw
      ELSE IF aUrgencyTier # bUrgencyTier
        THEN Sub(aUrgencyTier, bUrgencyTier)
      ELSE IF Len(preferredStores) > 0 /\ aStoreIndex # -1
              /\ bStoreIndex # -1 /\ aStoreIndex # bStoreIndex
        THEN Whole(aStoreIndex - bStoreIndex)
      ELSE IF a.category # b.category THEN compareCategory(a, b)
      ELSE IF Truthy(efficiency(a)) /\ Truthy(efficiency(b))
        THEN Sub(efficiency(a), efficiency(b))
      ELSE Whole(0)

\* the comparator of sortedForBatching in generateSmartReorderPlan
compareForBatching(a, b) ==
  IF StrictEq(a.quantity, Whole(0)) /\ ~StrictEq(b.quantity, Whole(0))
    THEN Whole(-1)
  ELSE IF ~StrictEq(a.quantity, Whole(0)) /\ StrictEq(b.quantity, Whole(0))
    THEN Whole(1)
  ELSE IF Le(a.quantity, a.minThreshold) /\ Gt(b.quantity, b.minThreshold)
    THEN Whole(-1)
  ELSE IF Gt(a.quantity, a.minThreshold) /\ Le(b.quantity, b.minThreshold)
    THEN Whole(1)
  ELSE Sub(a.daysLeft, b.daysLeft)

\* a comparator: the one the switch on preference selects ('balanced' is
\* also the default branch), or the batching comparator
Comparator(kind, preferredStores) ==
  [kind |-> kind, preferredStores |-> preferredStores]

compareBy(c, a, b) ==
  CASE c.kind = "batching" -> compareForBatching(a, b)
    [] c.kind = "cost" -> compareCost(a, b)
    [] c.kind = "time" -> compareTime(a, b, c.preferredStores)
    [] c.kind = "urgent" -> compareUrgent(a, b)
    [] OTHER -> compareBalanced(a, b, c.preferredStores)

\* Array.prototype.sort with a comparator: a stable insertion sort; the
\* comparator is not called for fewer than two elements, and an exception
\* it throws ends the sort
SortResult(threw, list) == [threw |-> threw, list |-> list]

\* insert x into the sorted list: x is compared with the elements from
\* the right until one does not sort after it (or the comparator throws),
\* and goes behind that one
\* r[j] is what comparing sorted[j] with x gives; the last j whose result
\* is not positive (or is an exception), 0 when there is none
lastStop(r) ==
  LET stops == {j \in 1..Len(r) : r[j] = Throw \/ ~Gt(r[j], Whole(0))}
  IN  IF stops = {} THEN 0 ELSE CHOOSE j \in stops : \A i \in stops : i <= j

insertAt(sorted, x, r, k) ==
  IF k > 0 /\ r[k] = Throw
  THEN SortResult(TRUE, <<>>)
  ELSE SortResult(FALSE,
                  SubSeq(sorted, 1, k) \o <<x>>
                  \o SubSeq(sorted, k + 1, Len(sorted)))

insertWith(sorted, x, r) == insertAt(sorted, x, r, lastStop(r))

insertSorted(sorted, x, c) ==
  insertWith(sorted, x, [j \in 1..Len(sorted) |-> compareBy(c, sorted[j], x)])

\* one step of the sort: the next element goes into the sorted part
sortStep(st, x, c) == IF st.threw THEN st ELSE insertSorted(st.list, x, c)

\* the steps for s[lo..hi] applied in order to the sorted part st.  The
\* range is halved, and the first half evaluated (left = left) before the
\* second starts, only to keep the evaluation shallow: the steps and their
\* order are those of the loop
RECURSIVE sortRange(_, _, _, _, _)
sortRange(s, lo, hi, st, c) ==
  IF lo > hi THEN st
  ELSE IF lo = hi THEN sortStep(st, s[lo], c)
  ELSE LET mid == (lo + hi) \div 2
           left == sortRange(s, lo, mid, st, c)
       IN  IF left = left THEN sortRange(s, mid + 1, hi, left, c) ELSE left

sortBy(s, c) == sortRange(s, 1, Len(s), SortResult(FALSE, <<>>), c)

\* (item.price || 0) * item.suggestedOrderQuantity
itemCost(item) ==
  Mul(OrElse(item.price, Whole(0)), item.suggestedOrderQuantity)

\* the budget filter: essential items always stay and count, the others
\* stay while the running total stays within the budget; st holds the items
\* kept so far and runningTotal
budgetStep(st, item, budget) ==
  IF Truthy(item.essential)
     \/ Le(Add(st.runningTotal, itemCost(item)), budget)
  THEN [kept |-> Append(st.kept, item),
        runningTotal |-> Add(st.runningTotal, itemCost(item))]
  ELSE st

\* the filter steps for s[lo..hi] applied in order to st
RECURSIVE budgetRange(_, _, _, _, _)
budgetRange(s, lo, hi, st, budget) ==
  IF lo > hi THEN st
  ELSE IF lo = hi THEN budgetStep(st, s[lo], budget)
  ELSE LET mid == (lo + hi) \div 2
           left == budgetRange(s, lo, mid, st, budget)
       IN  IF left = left THEN budgetRange(s, mid + 1, hi, left, budget)
           ELSE left

budgetFilter(s, budget) ==
  budgetRange(s, 1, Len(s), [kept |-> <<>>, runningTotal |-> Whole(0)],
              budget).kept

\* the integer a slice bound is truncated to
truncate(v) ==
  LET a == ToNumber(v)
  IN  IF a.t # "num" THEN 0
      ELSE IF a.n >= 0 THEN a.n \div a.d ELSE -((-a.n) \div a.d)

\* s.slice(0, n)
sliceTo(s, n) ==
  LET k == IF truncate(n) < 0 THEN 0
           ELSE IF truncate(n) > Len(s) THEN Len(s) ELSE truncate(n)
  IN  SubSeq(s, 1, k)

\* the item limit
applyMaxItems(s, maxItems) ==
  IF Truthy(maxItems) /\ Gt(maxItems, Whole(0)) /\ Gt(Whole(Len(s)), maxItems)
  THEN LET essentialItems == filterEssential(s, TRUE)
           nonEssentialItems == filterEssential(s, FALSE)
       IN  IF Ge(Whole(Len(essentialItems)), maxItems)
           THEN sliceTo(essentialItems, maxItems)
           ELSE essentialItems
                \o sliceTo(nonEssentialItems,
                           Sub(maxItems, Whole(Len(essentialItems))))
  ELSE s

sumCost(s) == sumSeq([i \in 1..Len(s) |-> itemCost(s[i])])

\* the labelled clone of the input list
labelledItems(sugg) ==
  [i \in 1..Len(sugg.elems) |-> labelEssential(jsonClone(sugg.elems[i]))]

\* includeNonEssentials ? items : items.filter(item => item.essential)
keptItems(items, o) ==
  IF o.includeNonEssentials THEN items ELSE filterEssential(items, TRUE)

\* the budget constraint, applied when a positive budget is given
withinBudget(s, budget) ==
  IF Truthy(budget) /\ Gt(budget, Whole(0)) THEN budgetFilter(s, budget)
  ELSE s

\* the totals and the returned object
optimizeResult(optimized) ==
  [NoResult EXCEPT !.kind = "optimize", !.success = TRUE,
     !.items = optimized,
     !.estimatedTotalCost = sumCost(optimized),
     !.potentialBulkSavings = calculateBulkSavings(Array(optimized)),
     !.subscription = calculateSubscriptionSavings(Array(optimized))]

\* what follows the sort: the catch block when the comparator threw,
\* otherwise the budget filter, the item limit and the totals
optimizeSorted(sorted, o) ==
  IF sorted.threw THEN [NoResult EXCEPT !.kind = "optimize"]
  ELSE optimizeResult(applyMaxItems(withinBudget(sorted.list, o.budget),
                                    o.maxItems))

optimizeShoppingList(sugg, o) ==
  IF EmptyOrInvalid(sugg)
  THEN [NoResult EXCEPT !.kind = "optimize"]
  ELSE optimizeSorted(
         sortBy(keptItems(labelledItems(sugg), o),
                Comparator(IF o.preference \in {"cost", "time", "urgent"}
                           THEN o.preference ELSE "balanced",
                           o.preferredStores)),
         o)

(***************************************************************************)
(* generateSmartReorderPlan                                                *)
(***************************************************************************)
DefaultDaysToLookAhead == 14

\* a batch is closed at this many items
BatchMaxItems == 10

\* a batch is closed before its cost would pass this amount
BatchMaxCost == 100

\* the defaults of the options destructuring
DefaultPlanOptions ==
  [budget |-> Null, daysToLookAhead |-> Whole(DefaultDaysToLookAhead),
   maxItems |-> Null, preferredStores |-> <<>>,
   optimizationPreference |-> "balanced"]

\* immediate.items.some(i => i.id === item.id)
isImmediate(item, immediateItems) ==
  \E k \in 1..Len(immediateItems) : immediateItems[k].id = item.id

\* the filter callback of `upcoming`
isUpcoming(item, immediateItems, o) ==
  IF isImmediate(item, immediateItems) THEN FALSE
  ELSE IF ~validateItem(item).valid THEN FALSE
  ELSE LET daysLeft == NumberProperty(calculateDaysLeft(item), "daysLeft")
       IN  Gt(daysLeft, Whole(7)) /\ Le(daysLeft, o.daysToLookAhead)

\* the map callback of `upcoming`
toUpcoming(item) ==
  LET daysLeftInfo == calculateDaysLeft(item)
  IN  [item EXCEPT
         !.daysLeft = NumberProperty(daysLeftInfo, "daysLeft"),
         !.confidence = NumberProperty(daysLeftInfo, "confidence"),
         !.suggestedOrderQuantity =
            OrElse(item.optimalOrderQuantity,
                   MathMax(Whole(1), OrElse(item.minThreshold, Whole(1)))),
         !.urgency = "upcoming",
         !.essential = Bool(FALSE)]

upcomingItems(s, immediateItems, o) ==
  LET chosen == SelectSeq(s, LAMBDA item : isUpcoming(item, immediateItems, o))
  IN  [i \in 1..Len(chosen) |-> toUpcoming(chosen[i])]

\* reading item.id of a null entry throws; `some` calls its callback only
\* when immediate.items is not empty
upcomingThrows(s, immediateItems) ==
  /\ immediateItems # <<>>
  /\ \E k \in 1..Len(s) : s[k].jstype = "null"

\* the forEach callback that annotates an item with a larger bulk order
annotateBulk(item) ==
  IF ~Truthy(item.price) THEN item
  ELSE LET regularTotal == Mul(item.price, item.suggestedOrderQuantity)
           bulkDiscount == calculateBulkSavings(Array(<<item>>))
           increasedQuantity ==
             Ceil(Mul(item.suggestedOrderQuantity, Num(3, 2)))
       IN  IF Gt(bulkDiscount, Mul(regularTotal, Num(7, 100)))
           THEN [item EXCEPT
                   !.bulkOrderRecommended = Bool(TRUE),
                   !.regularOrderQuantity = item.suggestedOrderQuantity,
                   !.bulkOrderQuantity = increasedQuantity,
                   !.bulkOrderSavings =
                      Sub(Mul(Mul(item.price, increasedQuantity), Num(1, 10)),
                          bulkDiscount)]
           ELSE item

\* a finished batch
makeBatch(items, cost) ==
  [items |-> items, totalCost |-> cost, itemCount |-> Len(items),
   essentialItemCount |-> Len(filterEssential(items, TRUE))]

\* the batching loop: st holds batches, currentBatch and currentBatchCost
batchStep(st, item) ==
  LET full == \/ Len(st.currentBatch) >= BatchMaxItems
              \/ /\ Gt(Add(st.currentBatchCost, itemCost(item)),
                       Whole(BatchMaxCost))
                 /\ Len(st.currentBatch) > 0
  IN  IF full
      THEN [batches |-> Append(st.batches,
                               makeBatch(st.currentBatch, st.currentBatchCost)),
            currentBatch |-> <<item>>,
            currentBatchCost |-> Add(Whole(0), itemCost(item))]
      ELSE [st EXCEPT !.currentBatch = Append(@, item),
                      !.currentBatchCost = Add(@, itemCost(item))]

\* the loop steps for s[lo..hi] applied in order to st
RECURSIVE batchRange(_, _, _, _)
batchRange(s, lo, hi, st) ==
  IF lo > hi THEN st
  ELSE IF lo = hi THEN batchStep(st, s[lo])
  ELSE LET mid == (lo + hi) \div 2
           left == batchRange(s, lo, mid, st)
       IN  IF left = left THEN batchRange(s, mid + 1, hi, left) ELSE left

batchLoop(s) ==
  batchRange(s, 1, Len(s),
             [batches |-> <<>>, currentBatch |-> <<>>,
              currentBatchCost |-> Whole(0)])

\* the batches without the final push of the unfinished batch
makeBatchesDropLast(s) == batchLoop(s).batches

\* the batches of a list: the loop, then the last batch if it has items
makeBatches(s) ==
  LET st == batchLoop(s)
  IN  IF Len(st.currentBatch) > 0
      THEN Append(st.batches, makeBatch(st.currentBatch, st.currentBatchCost))
      ELSE st.batches

\* the list handed to optimizeShoppingList
allReorderItems(inv, o) ==
  LET immediate == calculateReorderSuggestions(inv, DefaultSuggestOptions)
      all == immediate.items \o upcomingItems(inv.elems, immediate.items, o)
  IN  [i \in 1..Len(all) |-> annotateBulk(all[i])]

\* the optimizer's result inside the plan
planOptimized(inv, o) ==
  optimizeShoppingList(Array(allReorderItems(inv, o)),
    [preference |-> o.optimizationPreference, maxItems |-> o.maxItems,
     budget |-> o.budget, preferredStores |-> o.preferredStores,
     includeNonEssentials |-> TRUE])

\* [...optimized.items].sort(...)
sortedForBatching(items) == sortBy(items, Comparator("batching", <<>>)).list

\* the batches and the returned object
planResult(optimized) ==
  [NoResult EXCEPT !.kind = "plan", !.success = TRUE,
     !.items = optimized.items,
     !.batches = makeBatches(sortedForBatching(optimized.items)),
     !.estimatedTotalCost = optimized.estimatedTotalCost,
     !.potentialBulkSavings = optimized.potentialBulkSavings,
     !.subscription = optimized.subscription]

generateSmartReorderPlan(inv, o) ==
  IF EmptyOrInvalid(inv)
  THEN [NoResult EXCEPT !.kind = "plan"]
  ELSE IF upcomingThrows(inv.elems,
            calculateReorderSuggestions(inv, DefaultSuggestOptions).items)
  THEN [NoResult EXCEPT !.kind = "plan"]
  ELSE planResult(planOptimized(inv, o))

(***************************************************************************)
(* generateRestockingRecommendations and calculateCartTotal                *)
(***************************************************************************)
\* does the collection hold an entry whose property read throws?
hasNullEntry(s) == \E k \in 1..Len(s) : s[k].jstype = "null"

\* item.minThreshold * 1.5
reorderPoint(item) == Mul(item.minThreshold, Num(3, 2))

restockQuantity(item) ==
  Ceil(Add(Sub(reorderPoint(item), item.quantity),
           Mul(item.replenishmentTime, dailyRate(item))))

restockList(s) ==
  LET chosen == SelectSeq(s, LAMBDA item :
                               Le(item.quantity, reorderPoint(item)))
  IN  [i \in 1..Len(chosen) |->
         [chosen[i] EXCEPT !.suggestedOrderQuantity =
                              restockQuantity(chosen[i])]]

\* inventory.forEach(...) without a guard: a collection that is no array,
\* or a null entry, ends in a TypeError
generateRestockingRecommendations(inv) ==
  IF inv.kind # "array" \/ hasNullEntry(inv.elems) THEN Thrown("restock")
  ELSE [NoResult EXCEPT !.kind = "restock", !.success = TRUE,
          !.items = restockList(inv.elems)]

\* Number.prototype.toFixed(2): a string, here the number of hundredths it
\* shows, or the text of a value that is not finite
toFixed2(v) ==
  LET a == ToNumber(v)
  IN  IF a.t # "num" THEN [t |-> "str", text |-> a.t]
      ELSE [t |-> "fixed2",
            hundredths |-> IF a.n >= 0
                           THEN (200 * a.n + a.d) \div (2 * a.d)
                           ELSE -((200 * (-a.n) + a.d) \div (2 * a.d))]

sumCart(s) == sumSeq([i \in 1..Len(s) |-> Mul(s[i].price, s[i].quantity)])

\* cartItems.reduce(...).toFixed(2) without a guard
calculateCartTotal(cartItems) ==
  IF cartItems.kind # "array" \/ hasNullEntry(cartItems.elems)
  THEN Thrown("cartTotal")
  ELSE [NoResult EXCEPT !.kind = "cartTotal", !.success = TRUE,
          !.value = toFixed2(sumCart(cartItems.elems))]

(***************************************************************************)
(* generateInventoryInsights.  The items of the model carry neither         *)
(* seasonalPatterns nor dated purchase history, so the seasonal insight is  *)
(* never produced and the purchase-pattern insight is decided by the set    *)
(* of items the caller names as irregular.                                  *)
(***************************************************************************)
insightTypes(s, irregular) ==
  LET lowStock == {i \in 1..Len(s) :
                     Le(s[i].quantity, s[i].minThreshold)
                     /\ Gt(s[i].quantity, Whole(0))}
      outOfStock == {i \in 1..Len(s) : StrictEq(s[i].quantity, Whole(0))}
      candidates == {i \in 1..Len(s) :
                       /\ ~s[i].hasSubscription
                       /\ s[i].purchaseFrequency # ""
                       /\ s[i].purchaseFrequency # "asNeeded"
                       /\ s[i].historyLength >= 3}
  IN  (IF \E i \in 1..Len(s) : s[i].category # ""
       THEN {"categoryBreakdown"} ELSE {})
      \cup (IF lowStock # {} \/ outOfStock # {} THEN {"stockIssues"} ELSE {})
      \cup (IF candidates # {} THEN {"subscriptionOpportunities"} ELSE {})
      \cup (IF irregular # {} THEN {"purchasePatterns"} ELSE {})

generateInventoryInsights(inv, irregular) ==
  IF EmptyOrInvalid(inv) THEN [NoResult EXCEPT !.kind = "insights"]
  ELSE IF hasNullEntry(inv.elems) THEN [NoResult EXCEPT !.kind = "insights"]
  ELSE [NoResult EXCEPT !.kind = "insights", !.success = TRUE,
          !.value = Whole(Cardinality(insightTypes(inv.elems, irregular)))]

(***************************************************************************)
(* The inputs.  Every call works on a snapshot: the inventory handed to     *)
(* the inventory operations, or the list handed to the list operations.     *)
(***************************************************************************)
MaxQuantity == 6

\* how far below zero a recorded quantity goes
MaxDeficit == 2

MaxThreshold == 4

MaxCopies == 25

TestBudget == 50

TestMaxItems == 2

\* a well-formed item: name and category present
Base == [Blank EXCEPT !.id = 1, !.name = "milk", !.category = "general"]

Thresholds == {U, Num(3, 2)} \cup {Whole(n) : n \in -1..MaxThreshold}

Rates == {U, Whole(0), Whole(1), Whole(2), Num(1, 2)}

OrderQuantities == {U, Whole(0), Whole(-3), Num(5, 2), Whole(4)}

Frequencies == validFrequencies \cup {""}

\* items that differ in what the depletion estimate reads
DaysItems ==
  {[Base EXCEPT !.quantity = Whole(q), !.minThreshold = m,
                !.dailyConsumptionRate = r] :
     q \in 0..MaxQuantity, m \in Thresholds, r \in Rates}

\* items that differ in what the order quantity reads
OrderItems ==
  {[Base EXCEPT !.quantity = Whole(q), !.minThreshold = m,
                !.purchaseFrequency = f, !.optimalOrderQuantity = k,
                !.category = "grocery"] :
     q \in {-MaxDeficit, 1}, m \in Thresholds, f \in Frequencies,
     k \in OrderQuantities}

\* items a validation rejects, and entries that are no objects
InvalidItems ==
  {[Base EXCEPT !.quantity = Whole(1), !.minThreshold = Whole(2),
                !.name = ""],
   [Base EXCEPT !.quantity = Whole(1), !.minThreshold = Whole(2),
                !.category = ""],
   [Base EXCEPT !.quantity = U, !.minThreshold = Whole(2)],
   [Base EXCEPT !.quantity = Bool(TRUE), !.minThreshold = Whole(2)],
   [Base EXCEPT !.quantity = Whole(1), !.minThreshold = Whole(2),
                !.purchaseFrequency = "hourly"],
   NullEntry, PrimitiveEntry}

\* what a numeric field holds when it is no finite number
NonFinite == {NaN, PInf, Bool(TRUE)}

\* items with a numeric field that is no finite number
NonFiniteItems ==
  {[Base EXCEPT !.quantity = v, !.minThreshold = Whole(2)] : v \in NonFinite}
  \cup {[Base EXCEPT !.quantity = Whole(5), !.minThreshold = Whole(2),
                     !.price = v] : v \in NonFinite \cup {Whole(0)}}
  \cup {[Base EXCEPT !.quantity = Whole(5), !.minThreshold = v] :
          v \in NonFinite}

\* a few items to combine into longer inventories
MixItems ==
  {[Base EXCEPT !.quantity = Whole(0), !.minThreshold = Whole(2),
                !.category = "grocery", !.purchaseFrequency = "weekly"],
   [Base EXCEPT !.quantity = Whole(1), !.minThreshold = Whole(2),
                !.price = Whole(5), !.store = "store-a"],
   [Base EXCEPT !.quantity = Whole(2), !.minThreshold = Whole(4),
                !.price = Whole(60), !.category = "grocery",
                !.purchaseFrequency = "monthly", !.store = "store-b"],
   [Base EXCEPT !.quantity = Whole(5), !.minThreshold = Whole(1),
                !.dailyConsumptionRate = Whole(1), !.price = Whole(10)],
   [Base EXCEPT !.quantity = Whole(6), !.minThreshold = Whole(1),
                !.price = Whole(10), !.purchaseFrequency = "asNeeded"]}
  \cup InvalidItems

\* the items repeated to make long inventories: each costs 5, 60 or nothing
\* to reorder and is below its threshold
CopyItems ==
  {[Base EXCEPT !.quantity = Whole(1), !.minThreshold = Whole(1),
                !.price = Whole(5), !.purchaseFrequency = "asNeeded"],
   [Base EXCEPT !.quantity = Whole(1), !.minThreshold = Whole(1),
                !.price = Whole(60), !.purchaseFrequency = "asNeeded"],
   [Base EXCEPT !.quantity = Whole(1), !.minThreshold = Whole(1),
                !.purchaseFrequency = "asNeeded"]}

\* the entries of s numbered 1, 2, ... as their ids
withIds(s) ==
  [i \in 1..Len(s) |->
     IF s[i].jstype = "object" THEN [s[i] EXCEPT !.id = i] ELSE s[i]]

\* n copies of x
copies(x, n) == [i \in 1..n |-> x]

\* collections that are empty or no array at all
Degenerate ==
  {Array(<<>>), NullCollection, UndefinedCollection, ObjectCollection}

\* the items of the documented scenarios
ScenarioItems ==
  {[Base EXCEPT !.quantity = Whole(5), !.minThreshold = Whole(10),
                !.dailyConsumptionRate = Whole(1)],
   [Base EXCEPT !.quantity = Whole(0), !.minThreshold = Whole(2),
                !.category = "grocery", !.purchaseFrequency = "weekly"]}

Inventories ==
  {Array(withIds(<<x>>)) :
     x \in DaysItems \cup OrderItems \cup InvalidItems \cup ScenarioItems
           \cup NonFiniteItems}
  \cup {Array(withIds(<<x, y>>)) : x \in MixItems, y \in MixItems}
  \cup {Array(withIds(copies(x, n))) : x \in CopyItems, n \in 3..MaxCopies}
  \cup {Array(withIds(<<x>> \o copies(y, n))) :
          x \in CopyItems, y \in CopyItems, n \in {BatchMaxItems}}

\* suggestions handed to the optimizer directly
Stocks ==
  {[quantity |-> Whole(5), minThreshold |-> Whole(1)],
   [quantity |-> Whole(1), minThreshold |-> Whole(2)],
   [quantity |-> Whole(0), minThreshold |-> Whole(1)]}

Labels == {U, Bool(TRUE), Bool(FALSE)}

Prices == {U, Whole(10), Whole(60)}

Stores == {"", "store-a", "store-b"}

Suggested ==
  {[Base EXCEPT !.quantity = st.quantity, !.minThreshold = st.minThreshold,
                !.category = c, !.essential = e, !.price = p, !.store = w,
                !.purchaseFrequency = "monthly",
                !.suggestedOrderQuantity = Whole(k),
                !.urgency = IF st.quantity = Whole(0) THEN "critical"
                            ELSE IF Le(st.quantity, st.minThreshold)
                                 THEN "high" ELSE "low"] :
     st \in Stocks, c \in {"general", "grocery"}, e \in Labels, p \in Prices,
     w \in Stores, k \in 1..2}

\* a few suggestions to combine into longer lists
MixSuggested ==
  {x \in Suggested :
     /\ x.suggestedOrderQuantity = Whole(1)
     /\ \/ x.category = "general" /\ x.store = "store-a" /\ x.price # U
        \/ x.category = "grocery" /\ x.store = "" /\ x.price = U
                                  /\ x.essential = U
        \/ x.category = "general" /\ x.store = "store-b" /\ x.price # U
                                  /\ x.essential = Bool(TRUE)
                                  /\ x.quantity = Whole(5)
     /\ x.quantity # Whole(0) \/ x.essential = U}

\* the suggestion of the budget scenario: price 10, one unit, not essential
CopySuggested ==
  {[Base EXCEPT !.quantity = Whole(5), !.minThreshold = Whole(1),
                !.purchaseFrequency = "monthly", !.price = Whole(10),
                !.suggestedOrderQuantity = Whole(1), !.urgency = "low"],
   [Base EXCEPT !.quantity = Whole(1), !.minThreshold = Whole(1),
                !.purchaseFrequency = "monthly", !.price = Whole(10),
                !.suggestedOrderQuantity = Whole(1), !.urgency = "high"]}

\* cart items that differ in what the savings calculators read
CartQuantities == {U, Whole(2), Whole(3), Whole(5), Whole(10)}

CartItems ==
  {[Base EXCEPT !.quantity = Whole(1), !.minThreshold = Whole(1),
                !.category = c, !.price = p, !.orderQuantity = k] :
     c \in {"grocery", "household", "electronics", "general"},
     p \in {U, NaN, Whole(10)}, k \in CartQuantities}

\* a few cart items to combine into longer carts
MixCartItems ==
  {x \in CartItems :
     \/ x.category = "grocery" /\ x.price = Whole(10)
                               /\ x.orderQuantity = Whole(10)
     \/ x.category = "household" /\ x.price = Whole(10)
                                 /\ x.orderQuantity = Whole(3)
     \/ x.category = "electronics" /\ x.price = Whole(10)
                                   /\ x.orderQuantity = Whole(2)
     \/ x.category = "general" /\ x.price = U /\ x.orderQuantity = Whole(5)}

\* cart items that differ in what the subscription calculator reads
SubscriptionItems ==
  {[Base EXCEPT !.quantity = Whole(1), !.minThreshold = Whole(1),
                !.category = c, !.price = Whole(10),
                !.purchaseFrequency = "monthly",
                !.suggestedOrderQuantity = Whole(2)] :
     c \in {"grocery", "household", "personal", "electronics", "general"}}
  \cup
  {[Base EXCEPT !.quantity = Whole(5), !.minThreshold = Whole(1),
                !.category = "general", !.price = p,
                !.purchaseFrequency = f, !.hasSubscription = h,
                !.historyLength = n, !.suggestedOrderQuantity = Whole(2)] :
     p \in {U, Whole(10)}, f \in Frequencies, h \in BOOLEAN, n \in {0, 3}}

\* a few of them to combine into longer carts
MixSubscriptionItems ==
  {x \in SubscriptionItems :
     \/ x.category = "grocery"
     \/ /\ x.category = "general" /\ x.price = Whole(10)
        /\ x.purchaseFrequency = "asNeeded"
        /\ x.hasSubscription = (x.historyLength = 0)}

SuggestionLists ==
  {Array(withIds(<<x>>)) : x \in Suggested \cup CartItems \cup SubscriptionItems}
  \cup {Array(withIds(<<x, y>>)) :
          x \in MixSubscriptionItems, y \in MixSubscriptionItems}
  \cup {Array(withIds(<<x, y>>)) : x \in MixCartItems, y \in MixCartItems}
  \cup {Array(withIds(<<x, y>>)) : x \in MixSuggested, y \in MixSuggested}
  \cup {Array(withIds(copies(x, n))) : x \in CopySuggested, n \in 3..MaxCopies}
  \cup {Array(withIds(<<x, y, z>>)) :
          x \in CopySuggested, y \in CopySuggested, z \in CopySuggested}

SuggestOptionsSet ==
  {DefaultSuggestOptions,
   [DefaultSuggestOptions EXCEPT !.notificationThreshold = Whole(3)],
   [DefaultSuggestOptions EXCEPT !.includeBelowThreshold = FALSE],
   [DefaultSuggestOptions EXCEPT !.bulkPurchaseThreshold = Whole(5)]}

Preferences == {"cost", "time", "urgent", "balanced"}

OptimizeOptionsSet ==
  {[preference |-> p, maxItems |-> m, budget |-> b, preferredStores |-> w,
    includeNonEssentials |-> e] :
     p \in Preferences, m \in {Null, Whole(TestMaxItems)},
     b \in {Null, Whole(TestBudget)},
     w \in {<<>>, <<"store-b", "store-a">>}, e \in BOOLEAN}

PlanOptionsSet ==
  {[DefaultPlanOptions EXCEPT !.optimizationPreference = p, !.maxItems = m,
                              !.budget = b] :
     p \in Preferences, m \in {Null, Whole(TestMaxItems)},
     b \in {Null, Whole(TestBudget)}}

NoArgs == [none |-> TRUE]

(***************************************************************************)
(* What a call leaves in the caller's array.  An entry of an input array   *)
(* is an object the caller still holds; id is its position in that array.  *)
(* A callback that fills an object writes either to a new object (0) or to *)
(* the caller's own object (its id).                                       *)
(***************************************************************************)
\* `{...item, ...}` with the caller's object itself in place of a copy
spreadTargetShared(item) == item.id

\* `{...item, ...}` in the map callbacks: the fields go to a new object
spreadTarget(item) == 0

\* JSON.parse(JSON.stringify(suggestions)): every entry is a new object
jsonCloneTarget(item) == 0

\* the caller's array once the objects have been filled: targets[j] is the
\* caller's entry that objects[j] is, or 0
writeBack(coll, objects, targets) ==
  [coll EXCEPT
     !.elems =
        [k \in 1..Len(coll.elems) |->
           IF \E j \in 1..Len(objects) : targets[j] = k
           THEN objects[CHOOSE j \in 1..Len(objects) : targets[j] = k]
           ELSE coll.elems[k]]]

spreadTargets(objects) == [j \in 1..Len(objects) |-> spreadTarget(objects[j])]

\* the inventory had the selected entries been taken out of the caller's
\* array instead of copied
suggestInputAfterConsumed(inv, suggested) ==
  [inv EXCEPT
     !.elems =
        SelectSeq(@, LAMBDA entry :
                       ~\E j \in 1..Len(suggested) :
                          entry.jstype = "object" /\ suggested[j].id = entry.id)]

\* the inventory after calculateReorderSuggestions(inv, o): filter and map
\* return new arrays, the objects are those of the map callback
suggestInputAfter(inv, suggested) ==
  writeBack(inv, suggested, spreadTargets(suggested))

\* the inventory after generateSmartReorderPlan(inv, o): the objects of
\* allReorderItems are those of the two map calls, annotated by the forEach
planInputAfter(inv, o) ==
  IF EmptyOrInvalid(inv)
     \/ upcomingThrows(inv.elems,
           calculateReorderSuggestions(inv, DefaultSuggestOptions).items)
  THEN inv
  ELSE suggestInputAfter(inv, allReorderItems(inv, o))

\* the list after optimizeShoppingList(sugg, o): labels are written to the
\* entries of the clone, and the clone is the array that is sorted
optimizeInputAfter(sugg, labelled) ==
  writeBack(sugg, labelled,
            [j \in 1..Len(labelled) |-> jsonCloneTarget(labelled[j])])

(***************************************************************************)
(* The state machine: a snapshot is chosen, one operation is called on it   *)
(* and returns (or throws); Return hands control back to the caller.        *)
(***************************************************************************)
\* the model and the components as they are constructed
ComponentsAtRest ==
  /\ predictionModel = [initialized |-> FALSE, ready |-> FALSE]
  /\ predictCalls = <<>>
  /\ contextInventory = <<>>
  /\ notifications = <<>>
  /\ newNotificationsCount = 0
  /\ shoppingCart = <<>>

Init ==
  /\ \/ inventory \in Inventories \cup Degenerate /\ suggestions = Array(<<>>)
     \/ inventory = Array(<<>>) /\ suggestions \in SuggestionLists \cup Degenerate
  /\ op = "idle"
  /\ args = NoArgs
  /\ result = NoResult
  /\ ComponentsAtRest

\* a call that only reads its argument
Call(name, a, r) ==
  /\ op' = name
  /\ args' = a
  /\ result' = r
  /\ UNCHANGED <<inventory, suggestions, componentVars>>

\* a call that builds objects from its argument: inv and sugg are the
\* caller's arrays when it returns
CallOn(name, a, r, inv, sugg) ==
  /\ op' = name
  /\ args' = a
  /\ result' = r
  /\ inventory' = inv
  /\ suggestions' = sugg
  /\ UNCHANGED componentVars

DaysLeft ==
  /\ op = "idle"
  /\ \E i \in 1..Len(inventory.elems) :
       Call("daysLeft", [index |-> i],
            [NoResult EXCEPT !.kind = "daysLeft",
                             !.value = calculateDaysLeft(inventory.elems[i])])

Validate ==
  /\ op = "idle"
  /\ \E i \in 1..Len(inventory.elems) :
       Call("validate", [index |-> i],
            [NoResult EXCEPT
               !.kind = "validate",
               !.value = Bool(validateItem(inventory.elems[i]).valid)])

SuggestWith(name, o, r) ==
  /\ op' = name
  /\ args' = o
  /\ result' = r
  /\ inventory' = suggestInputAfter(inventory, r.items)
  /\ UNCHANGED <<suggestions, componentVars>>

Suggest ==
  /\ op = "idle"
  /\ \E o \in SuggestOptionsSet :
       SuggestWith("suggest", o, calculateReorderSuggestions(inventory, o))

\* the caller that was given suggestions asks again with the same options
SuggestAgain ==
  /\ op = "suggest"
  /\ result.success
  /\ SuggestWith("suggestAgain", args,
                 calculateReorderSuggestions(inventory, args))

Optimize ==
  /\ op = "idle"
  /\ \E o \in OptimizeOptionsSet :
       CallOn("optimize", o, optimizeShoppingList(suggestions, o), inventory,
              optimizeInputAfter(suggestions, labelledItems(suggestions)))

Plan ==
  /\ op = "idle"
  /\ \E o \in PlanOptionsSet :
       CallOn("plan", o, generateSmartReorderPlan(inventory, o),
              planInputAfter(inventory, o), suggestions)

Restock ==
  /\ op = "idle"
  /\ Call("restock", NoArgs, generateRestockingRecommendations(inventory))

CartTotal ==
  /\ op = "idle"
  /\ Call("cartTotal", NoArgs, calculateCartTotal(suggestions))

BulkSavings ==
  /\ op = "idle"
  /\ Call("bulkSavings", NoArgs,
          [NoResult EXCEPT !.kind = "bulkSavings",
                           !.value = calculateBulkSavings(suggestions)])

SubscriptionSavings ==
  /\ op = "idle"
  /\ Call("subscriptionSavings", NoArgs,
          [NoResult EXCEPT !.kind = "subscriptionSavings",
                           !.subscription =
                              calculateSubscriptionSavings(suggestions)])

Insights ==
  /\ op = "idle"
  /\ \E irregular \in SUBSET {i \in 1..Len(inventory.elems) :
                                inventory.elems[i].historyLength >= 3} :
       Call("insights", NoArgs, generateInventoryInsights(inventory, irregular))

Return ==
  /\ op # "idle"
  /\ op' = "idle"
  /\ args' = NoArgs
  /\ result' = NoResult
  /\ UNCHANGED <<inventory, suggestions, componentVars>>

Next ==
  \/ Validate
  \/ DaysLeft
  \/ Suggest
  \/ SuggestAgain
  \/ Optimize
  \/ Plan
  \/ Restock
  \/ CartTotal
  \/ BulkSavings
  \/ SubscriptionSavings
  \/ Insights
  \/ Return

Spec == Init /\ [][Next]_vars

(***************************************************************************)
(* Properties                                                              *)
(***************************************************************************)
\* the entries of the inventory that are objects
objectIndexes == {i \in 1..Len(inventory.elems) :
                    inventory.elems[i].jstype = "object"}

\* is the item with this id among the returned items?
returned(id) == \E k \in 1..Len(result.items) : result.items[k].id = id

\* C1: every item with quantity 0 (name and category present) has 0 days
\* left, and suggest with default options returns it with urgency critical.
C1_OutOfStockIsCritical ==
  \A i \in objectIndexes :
    LET item == inventory.elems[i]
    IN  (item.quantity = Whole(0) /\ item.name # "" /\ item.category # "")
        => /\ calculateDaysLeft(item) = Whole(0)
           /\ (op = "suggest" /\ args = DefaultSuggestOptions)
              => \E k \in 1..Len(result.items) :
                   /\ result.items[k].id = item.id
                   /\ result.items[k].urgency = "critical"

\* the items of the list handed to optimize that are essential after labeling
essentialInputs ==
  IF suggestions.kind = "array"
  THEN filterEssential(labelledItems(suggestions), TRUE) ELSE <<>>

\* is the item cap given, and do the essential items alone exceed it?
essentialsExceedCap ==
  /\ Truthy(args.maxItems)
  /\ Gt(args.maxItems, Whole(0))
  /\ Gt(Whole(Len(essentialInputs)), args.maxItems)

\* C2: optimize returns every item that is essential after labeling, unless
\* the essential items alone exceed maxItems.
C2_EssentialsNeverDropped ==
  (op = "optimize" /\ ~essentialsExceedCap)
  => \A k \in 1..Len(essentialInputs) : returned(essentialInputs[k].id)

\* C3: optimize called with a budget on a list without essential items
\* reports an estimatedTotalCost that is a number within the budget.
C3_CostWithinBudget ==
  (/\ op = "optimize"
   /\ suggestions.kind = "array"
   /\ Len(suggestions.elems) > 0
   /\ essentialInputs = <<>>
   /\ Truthy(args.budget)
   /\ Gt(args.budget, Whole(0)))
  => /\ result.estimatedTotalCost.t = "num"
     /\ Le(result.estimatedTotalCost, args.budget)

\* C4: every item suggest returns has a suggestedOrderQuantity that is a
\* whole number of at least 1.
C4_OrderQuantityAtLeastOne ==
  op = "suggest"
  => \A k \in 1..Len(result.items) :
       /\ IsInteger(result.items[k].suggestedOrderQuantity)
       /\ result.items[k].suggestedOrderQuantity.n >= 1

\* C4 witness: an item with a negative optimalOrderQuantity and a zero
\* threshold is returned with quantity 1.
C4_Witness ==
  /\ op = "suggest"
  /\ \E k \in 1..Len(result.items) :
       /\ result.items[k].optimalOrderQuantity = Whole(-3)
       /\ result.items[k].minThreshold = Whole(0)
       /\ result.items[k].suggestedOrderQuantity = Whole(1)

\* C5: with default options a valid item is among the suggestions exactly
\* when its quantity is 0, or at most minThreshold, or its days left are at
\* most the notification threshold of 7.
C5_SelectionPredicate ==
  (op = "suggest" /\ args = DefaultSuggestOptions)
  => \A i \in objectIndexes :
       LET item == inventory.elems[i]
       IN  validateItem(item).valid
           => (returned(item.id)
               <=> \/ item.quantity = Whole(0)
                   \/ Le(item.quantity, item.minThreshold)
                   \/ Le(calculateDaysLeft(item),
                         Whole(DefaultNotificationThreshold)))

\* the items of batches lo..hi, one batch after the other
RECURSIVE batchItems(_, _, _)
batchItems(b, lo, hi) ==
  IF lo > hi THEN <<>>
  ELSE IF lo = hi THEN b[lo].items
  ELSE batchItems(b, lo, (lo + hi) \div 2)
       \o batchItems(b, ((lo + hi) \div 2) + 1, hi)

\* 0 for an out-of-stock item, 1 for one at or below its threshold, else 2
urgencyRank(item) ==
  IF item.quantity = Whole(0) THEN 0
  ELSE IF Le(item.quantity, item.minThreshold) THEN 1 ELSE 2

\* is the list in batching order: by rank, then by ascending days left?
inBatchingOrder(s) ==
  \A i \in 1..Len(s) : \A j \in (i + 1)..Len(s) :
    /\ urgencyRank(s[i]) <= urgencyRank(s[j])
    /\ urgencyRank(s[i]) = urgencyRank(s[j]) => ~Lt(s[j].daysLeft, s[i].daysLeft)

\* C6: the batches of a plan partition the optimized list: every optimized
\* item is in exactly one batch, nothing else is, and the batches in
\* creation order give the optimized list in urgency order.
C6_BatchesPartition ==
  op = "plan"
  => LET flat == batchItems(result.batches, 1, Len(result.batches))
     IN  /\ Len(flat) = Len(result.items)
         /\ \A k \in 1..Len(result.items) :
              Cardinality({j \in 1..Len(flat) : flat[j] = result.items[k]}) = 1
         /\ inBatchingOrder(flat)
         /\ flat = sortedForBatching(result.items)

\* C6 witness: a plan of eleven items in two batches.
C6_Witness ==
  /\ op = "plan"
  /\ Len(result.items) = 11
  /\ Len(result.batches) = 2
  /\ result.batches[1].itemCount = BatchMaxItems
  /\ result.batches[2].itemCount = 1

\* the inventory of the batching scenario: 25 items that each cost 5 to
\* reorder and are below their threshold
ScenarioInventory ==
  Array(withIds(copies([Base EXCEPT !.quantity = Whole(1),
                                    !.minThreshold = Whole(1),
                                    !.price = Whole(5),
                                    !.purchaseFrequency = "asNeeded"], 25)))

\* C7: every batch has 1 to 10 items and a totalCost above 100 only when it
\* holds a single item; 25 essential items costing 5 each are planned in
\* batches of 10, 10 and 5.
C7_BatchLimits ==
  op = "plan"
  => /\ \A k \in 1..Len(result.batches) :
          /\ result.batches[k].itemCount >= 1
          /\ result.batches[k].itemCount <= BatchMaxItems
          /\ Gt(result.batches[k].totalCost, Whole(BatchMaxCost))
             => result.batches[k].itemCount = 1
     /\ (inventory = ScenarioInventory /\ args = DefaultPlanOptions)
        => [k \in 1..Len(result.batches) |-> result.batches[k].itemCount]
           = <<10, 10, 5>>

\* the collection the last call worked on
calledOn ==
  IF op \in {"optimize", "cartTotal", "bulkSavings", "subscriptionSavings"}
  THEN suggestions ELSE inventory

\* C8: an aggregate operation called with an empty, null or non-array
\* collection returns a result and never lets an exception reach the caller.
C8_EmptyInputNeverThrows ==
  (op \in {"suggest", "optimize", "insights", "plan", "restock", "cartTotal",
           "bulkSavings", "subscriptionSavings"}
   /\ EmptyOrInvalid(calledOn))
  => ~result.threw

\* the rate the estimate is specified to use: dailyConsumptionRate when
\* present and positive, otherwise minThreshold / 14
specifiedRate(item) ==
  IF item.dailyConsumptionRate # U /\ Gt(item.dailyConsumptionRate, Whole(0))
  THEN item.dailyConsumptionRate
  ELSE Div(item.minThreshold, Whole(14))

C10_DaysLeftFiniteInteger ==
  op = "daysLeft" => IsInteger(result.value) /\ result.value.n >= 0

\* the multiplier of a purchase frequency
frequencyMultiplier(f) ==
  CASE f = "daily" -> Whole(3)
    [] f = "weekly" -> Whole(2)
    [] f = "biweekly" -> Num(3, 2)
    [] f = "monthly" -> Num(6, 5)
    [] OTHER -> Whole(1)

\* C11: a suggested item without optimalOrderQuantity is ordered in the
\* quantity ceil(max(1, minThreshold) * multiplier of its frequency); with
\* optimalOrderQuantity present that value, rounded up and at least 1, is
\* used; the out-of-stock weekly item with threshold 2 is suggested with 4.
C11_OrderQuantityFormula ==
  /\ op = "suggest"
     => \A k \in 1..Len(result.items) :
          LET s == result.items[k]
          IN  IF s.optimalOrderQuantity = U
              THEN s.purchaseFrequency \in validFrequencies
                   => s.suggestedOrderQuantity
                      = Ceil(Mul(MathMax(Whole(1), s.minThreshold),
                                 frequencyMultiplier(s.purchaseFrequency)))
              ELSE s.suggestedOrderQuantity
                   = MathMax(Whole(1), Ceil(s.optimalOrderQuantity))
  /\ (/\ op = "suggest"
      /\ args = DefaultSuggestOptions
      /\ Len(inventory.elems) = 1
      /\ inventory.elems[1].quantity = Whole(0)
      /\ inventory.elems[1].minThreshold = Whole(2)
      /\ inventory.elems[1].category = "grocery"
      /\ inventory.elems[1].purchaseFrequency = "weekly")
     => \E k \in 1..Len(result.items) :
          result.items[k].suggestedOrderQuantity = Whole(4)

\* the first matching urgency tier of an item
specifiedUrgency(item) ==
  IF item.quantity = Whole(0) THEN "critical"
  ELSE IF Le(item.quantity, item.minThreshold) THEN "high"
  ELSE IF Le(calculateDaysLeft(item), Whole(3)) THEN "medium"
  ELSE "low"

\* C12: every suggestion carries the first matching urgency tier (critical,
\* high, medium for at most 3 days left, low) and a daysLeft field equal to
\* the days left of its item; a valid item above its threshold with at most
\* 3 days left is returned with urgency medium.
C12_UrgencyTiers ==
  op = "suggest"
  => /\ \A k \in 1..Len(result.items) :
          /\ result.items[k].urgency = specifiedUrgency(result.items[k])
          /\ result.items[k].daysLeft = calculateDaysLeft(result.items[k])
     /\ args = DefaultSuggestOptions
        => \A i \in objectIndexes :
             LET item == inventory.elems[i]
             IN  (/\ validateItem(item).valid
                  /\ Gt(item.quantity, item.minThreshold)
                  /\ Le(calculateDaysLeft(item), Whole(3)))
                 => \E k \in 1..Len(result.items) :
                      /\ result.items[k].id = item.id
                      /\ result.items[k].urgency = "medium"

\* C13: with preference balanced, no budget and no maxItems, optimize on a
\* list of two or more suggestions succeeds, returns every input item and
\* orders the items by non-decreasing urgency tier.
C13_BalancedSucceeds ==
  (/\ op = "optimize"
   /\ args.preference = "balanced"
   /\ args.budget = Null
   /\ args.maxItems = Null
   /\ args.includeNonEssentials
   /\ suggestions.kind = "array"
   /\ Len(suggestions.elems) >= 2)
  => /\ result.success
     /\ Len(result.items) = Len(suggestions.elems)
     /\ \A k \in 1..Len(suggestions.elems) : returned(suggestions.elems[k].id)
     /\ \A i \in 1..Len(result.items) : \A j \in (i + 1)..Len(result.items) :
          Le(getUrgencyTier(result.items[i]), getUrgencyTier(result.items[j]))

\* the order the preference sort establishes for the last optimize call,
\* after the budget filter
establishedOrder ==
  LET sorted == sortBy(keptItems(labelledItems(suggestions), args),
                       Comparator(args.preference, args.preferredStores))
  IN  [threw |-> sorted.threw,
       list |-> withinBudget(sorted.list, args.budget)]

\* the position of the item with this id in a list (0 when absent)
positionOf(s, id) ==
  IF \E k \in 1..Len(s) : s[k].id = id
  THEN CHOOSE k \in 1..Len(s) : s[k].id = id ELSE 0

\* is the item cap given?
capGiven == Truthy(args.maxItems) /\ Gt(args.maxItems, Whole(0))

\* C14: with maxItems > 0 optimize returns at most maxItems items; when the
\* essentials number at most maxItems all of them are returned and the
\* remaining slots go to the first non-essential items; the returned items
\* keep the relative order of the preference sort.
C14_ItemCap ==
  (op = "optimize" /\ capGiven /\ suggestions.kind = "array"
   /\ Len(suggestions.elems) > 0)
  => /\ Le(Whole(Len(result.items)), args.maxItems)
     /\ ~essentialsExceedCap
        => /\ \A k \in 1..Len(essentialInputs) :
                returned(essentialInputs[k].id)
           /\ ~establishedOrder.threw
              => LET candidates == establishedOrder.list
                     others == filterEssential(candidates, FALSE)
                     chosen == filterEssential(result.items, FALSE)
                 IN  /\ Len(result.items) = Len(candidates)
                        \/ Whole(Len(result.items)) = args.maxItems
                     /\ chosen = SubSeq(others, 1, Len(chosen))
     /\ ~establishedOrder.threw
        => \A i \in 1..Len(result.items) : \A j \in (i + 1)..Len(result.items) :
             /\ positionOf(establishedOrder.list, result.items[i].id) > 0
             /\ positionOf(establishedOrder.list, result.items[i].id)
                < positionOf(establishedOrder.list, result.items[j].id)

\* C15: on an empty list bulkSavings returns 0, and subscriptionSavings
\* returns without throwing an empty itemization and totals that are all
\* 0: totalSavings, the recommended count and totalAnnualSavings.
C15_EmptySavings ==
  suggestions = Array(<<>>)
  => /\ op = "bulkSavings" => ~result.threw /\ result.value = Whole(0)
     /\ op = "subscriptionSavings"
        => /\ ~result.threw
           /\ result.subscription.totalSavings = Whole(0)
           /\ result.subscription.recommendedItems = Whole(0)
           /\ result.subscription.totalAnnualSavings = Whole(0)
           /\ result.subscription.itemizedSavings = <<>>

\* the rate by quantity: 15% from 10, 12% from 5, 10% from 3, else 0
tierRate(q) ==
  IF Ge(q, Whole(10)) THEN Num(15, 100)
  ELSE IF Ge(q, Whole(5)) THEN Num(12, 100)
  ELSE IF Ge(q, Whole(3)) THEN Num(10, 100)
  ELSE Whole(0)

\* the floor of a category: grocery from 3 at least 8%, household from 3 at
\* least 12%, electronics from 2 at least 5%
categoryFloor(category, q) ==
  CASE category = "grocery" /\ Ge(q, Whole(3)) -> Num(8, 100)
    [] category = "household" /\ Ge(q, Whole(3)) -> Num(12, 100)
    [] category = "electronics" /\ Ge(q, Whole(2)) -> Num(5, 100)
    [] OTHER -> Whole(0)

\* price x orderQuantity x rate, 0 for an item without a numeric price
specifiedBulkSavings(item) ==
  IF item.price.t # "num" THEN Whole(0)
  ELSE Mul(Mul(item.price, item.orderQuantity),
           MathMax(tierRate(item.orderQuantity),
                   categoryFloor(item.category, item.orderQuantity)))

\* C16: bulkSavings of a cart whose items carry an orderQuantity is the sum
\* over the items of price x orderQuantity x rate, the rate being the
\* quantity tier raised to the category floor, and 0 for an item without a
\* numeric price.
C16_BulkSavingsFormula ==
  (/\ op = "bulkSavings"
   /\ suggestions.kind = "array"
   /\ \A k \in 1..Len(suggestions.elems) :
        suggestions.elems[k].orderQuantity.t = "num")
  => result.value
     = sumSeq([k \in 1..Len(suggestions.elems) |->
                 specifiedBulkSavings(suggestions.elems[k])])

\* C16 witness: one grocery item of price 10 and orderQuantity 10 saves 15.
C16_Witness ==
  /\ op = "bulkSavings"
  /\ Len(suggestions.elems) = 1
  /\ suggestions.elems[1].category = "grocery"
  /\ suggestions.elems[1].price = Whole(10)
  /\ suggestions.elems[1].orderQuantity = Whole(10)
  /\ result.value = Whole(15)

\* what two suggestions are compared on
suggestionView(x) ==
  [id |-> x.id, urgency |-> x.urgency, daysLeft |-> x.daysLeft,
   suggestedOrderQuantity |-> x.suggestedOrderQuantity,
   bulkRecommended |-> x.bulkRecommended,
   subscriptionEligible |-> x.subscriptionEligible]

suggestionViews(s) == [k \in 1..Len(s) |-> suggestionView(s[k])]

\* C17: suggest called again on the same inventory with the same options
\* returns the same items in the same order, each with the same urgency,
\* daysLeft, suggestedOrderQuantity, bulkRecommended and subscriptionEligible.
C17_SuggestRepeatable ==
  [][op' = "suggestAgain"
     => /\ args' = args
        /\ result'.success
        /\ suggestionViews(result'.items) = suggestionViews(result.items)]_vars

C17_Witness ==
  /\ op = "suggestAgain"
  /\ Len(result.items) >= 2
  /\ \E k \in 1..Len(result.items) : result.items[k].bulkRecommended = Bool(TRUE)

\* the operations that promise to leave their argument alone
readOnlyOperations == {"suggest", "suggestAgain", "optimize", "plan"}

\* C18: suggest, optimize and plan leave the array they are given as it was:
\* no entry gains or changes a field, and the order of the entries stays.
C18_InputsUnchanged ==
  [][op' \in readOnlyOperations
     => inventory' = inventory /\ suggestions' = suggestions]_vars

C18_Witness ==
  /\ op = "plan"
  /\ result.success
  /\ Len(inventory.elems) >= 2
  /\ \E k \in 1..Len(result.items) :
       result.items[k].bulkOrderRecommended = Bool(TRUE)

\* the entries of the inventory that validation accepts
validIndexes == {i \in objectIndexes : validateItem(inventory.elems[i]).valid}

\* an inventory that holds both valid and invalid entries
mixedInventory ==
  /\ validIndexes # {}
  /\ validIndexes # 1..Len(inventory.elems)

\* the selection predicate with the default notification threshold
meetsSelection(item) ==
  \/ item.quantity = Whole(0)
  \/ Le(item.quantity, item.minThreshold)
  \/ Le(calculateDaysLeft(item), Whole(DefaultNotificationThreshold))

\* every returned item is a valid entry of the inventory
onlyValidReturned ==
  \A k \in 1..Len(result.items) :
    \E i \in validIndexes : inventory.elems[i].id = result.items[k].id

\* C19: on an inventory that mixes valid and invalid entries suggest succeeds,
\* returns no invalid entry, and returns every valid item that meets the
\* selection predicate.
C19_InvalidItemsSkipped ==
  (op = "suggest" /\ args = DefaultSuggestOptions /\ mixedInventory)
  => /\ result.success
     /\ ~result.threw
     /\ onlyValidReturned
     /\ \A i \in validIndexes :
          meetsSelection(inventory.elems[i])
          => returned(inventory.elems[i].id)

\* a finite number
IsFiniteNumber(v) == v.t = "num"

\* the documented reasons for rejecting an item
specifiedInvalid(item) ==
  \/ item.jstype # "object"
  \/ item.name = ""
  \/ item.category = ""
  \/ ~Truthy(item.quantity)
  \/ ~IsFiniteNumber(item.quantity)
  \/ (item.price # U /\ ~IsFiniteNumber(item.price))
  \/ (item.minThreshold # U /\ ~IsFiniteNumber(item.minThreshold))
  \/ (item.purchaseFrequency # ""
      /\ item.purchaseFrequency \notin validFrequencies)

\* C20: validateItem answers valid:false exactly when the item is null or no
\* object, or name, quantity or category is missing or falsy, or quantity or
\* a supplied price or minThreshold is no finite number, or a supplied
\* purchaseFrequency is unknown; otherwise valid:true; the item is unchanged.
C20_ValidationRule ==
  [][op' = "validate"
     => /\ result'.value
             = Bool(~specifiedInvalid(inventory.elems[args'.index]))
        /\ inventory' = inventory]_vars

(***************************************************************************)
(* ConsumptionPredictionModel and predictConsumptionRate.  An async        *)
(* function runs until its first pending await and is resumed later by the *)
(* event loop; every call is a process whose position is its pc:           *)
(*   start        not called                                               *)
(*   awaitTimer   initialize waits for setTimeout, predict for initialize  *)
(*   awaitInit    initialize has returned, predict not yet resumed         *)
(*   awaitPredict predict has returned, predictConsumptionRate not resumed *)
(*   done         the promise of predictConsumptionRate is settled         *)
(***************************************************************************)
MaxCallers == 2

Callers == 1..MaxCallers

\* params.itemName when the caller gives none
MissingName == "<undefined>"

ItemNames == {MissingName, "", "Milk", "Paper Towel", "widget"}

\* the keywords of the lookup table that nameLower.includes(...) finds
keywordsIn(itemName) ==
  CASE itemName = "Milk" -> {"milk"}
    [] itemName = "Paper Towel" -> {"paper", "towel"}
    [] OTHER -> {}

\* nameLower.includes(a) || nameLower.includes(b) || ...
includesAny(itemName, keywords) == keywordsIn(itemName) \cap keywords # {}

baseline(threshold, frequency, confidence) ==
  [suggestedThreshold |-> threshold, suggestedFrequency |-> frequency,
   confidence |-> confidence]

\* the default of a category
categoryDefault(category) ==
  CASE category = "grocery" -> baseline(2, "weekly", 60)
    [] category = "household" -> baseline(1, "biweekly", 65)
    [] category = "personal" -> baseline(1, "monthly", 65)
    [] category = "electronics" -> baseline(1, "asNeeded", 60)
    [] category = "office" -> baseline(1, "monthly", 60)
    [] category = "pets" -> baseline(2, "biweekly", 70)
    [] OTHER -> baseline(1, "monthly", 50)

groceryRule(n) ==
  IF includesAny(n, {"milk"}) THEN baseline(1, "weekly", 85)
  ELSE IF includesAny(n, {"bread", "eggs"}) THEN baseline(1, "weekly", 80)
  ELSE IF includesAny(n, {"coffee", "tea"}) THEN baseline(1, "biweekly", 75)
  ELSE IF includesAny(n, {"cereal", "oatmeal"})
    THEN baseline(1, "biweekly", 70)
  ELSE IF includesAny(n, {"fruit", "vegetable", "produce"})
    THEN baseline(1, "weekly", 85)
  ELSE categoryDefault("grocery")

householdRule(n) ==
  IF includesAny(n, {"paper"}) /\ includesAny(n, {"towel", "toilet"})
    THEN baseline(2, "biweekly", 90)
  ELSE IF includesAny(n, {"detergent", "soap"})
    THEN baseline(1, "monthly", 85)
  ELSE IF includesAny(n, {"battery"}) THEN baseline(4, "monthly", 70)
  ELSE IF includesAny(n, {"cleaner", "spray"}) THEN baseline(1, "monthly", 75)
  ELSE IF includesAny(n, {"trash", "garbage", "bag"})
    THEN baseline(1, "monthly", 80)
  ELSE categoryDefault("household")

personalRule(n) ==
  IF includesAny(n, {"toothpaste", "shampoo"}) THEN baseline(1, "monthly", 85)
  ELSE IF includesAny(n, {"razor", "blade"}) THEN baseline(1, "monthly", 75)
  ELSE IF includesAny(n, {"deodorant", "antiperspirant"})
    THEN baseline(1, "monthly", 80)
  ELSE IF includesAny(n, {"makeup", "cosmetic"})
    THEN baseline(1, "biweekly", 65)
  ELSE categoryDefault("personal")

_getBaselinePrediction(itemName, category) ==
  CASE category = "grocery" -> groceryRule(itemName)
    [] category = "household" -> householdRule(itemName)
    [] category = "personal" -> personalRule(itemName)
    [] OTHER -> categoryDefault(category)

_calculateDailyRate(frequency, threshold) ==
  CASE frequency = "daily" -> Mul(Whole(threshold), Num(9, 10))
    [] frequency = "weekly" -> Div(Whole(threshold), Whole(7))
    [] frequency = "biweekly" -> Div(Whole(threshold), Whole(14))
    [] frequency = "monthly" -> Div(Whole(threshold), Whole(30))
    [] OTHER -> Div(Whole(threshold), Whole(14))

\* Math.sqrt(householdSize / 2) for the household sizes of the model
householdFactor(householdSize) ==
  CHOOSE r \in 0..householdSize : 2 * r * r = householdSize

\* parseFloat(v.toFixed(4)) of a finite number that is not negative
toFixed4(v) == Num((20000 * v.n + v.d) \div (2 * v.d), 10000)

\* Math.min(95, Math.max(40, confidence))
clampConfidence(confidence) ==
  LET atLeast == IF confidence < 40 THEN 40 ELSE confidence
  IN  IF atLeast > 95 THEN 95 ELSE atLeast

\* what Math.random() gives
Randoms == {Whole(0), Num(99, 100)}

NullPrediction ==
  [isNull |-> TRUE, dailyConsumptionRate |-> U, suggestedThreshold |-> 0,
   suggestedFrequency |-> "", confidence |-> 0]

\* the body of predict once the model is ready
predictBody(features, random) ==
  LET baselinePrediction ==
        _getBaselinePrediction(features.itemName, features.category)
      factor == householdFactor(features.householdSize)
      rate == Mul(Mul(_calculateDailyRate(
                        baselinePrediction.suggestedFrequency,
                        baselinePrediction.suggestedThreshold),
                      Whole(factor)),
                  features.seasonalFactor)
      jittered == Mul(rate, Add(Num(9, 10), Mul(random, Num(1, 5))))
  IN  [isNull |-> FALSE,
       dailyConsumptionRate |-> toFixed4(jittered),
       suggestedThreshold |-> baselinePrediction.suggestedThreshold * factor,
       suggestedFrequency |-> baselinePrediction.suggestedFrequency,
       confidence |-> clampConfidence(baselinePrediction.confidence)]

\* the parameters of a call; seasonal is seasonality[currentMonth]
PredictParams ==
  [itemName : ItemNames, category : {"grocery", "household"},
   householdSize : {2}, seasonal : {U}]
  \cup [itemName : {"widget"}, category : {"general"},
        householdSize : {8}, seasonal : {U, Whole(2)}]

\* const { itemName, category = 'general', ... } = params and the features
featuresOf(params) ==
  [itemName |-> params.itemName, category |-> params.category,
   householdSize |-> params.householdSize,
   seasonalFactor |-> OrElse(params.seasonal, Whole(1))]

\* the guard of the model skipped: every call goes on to the model
itemNameGivenUnchecked(params) == TRUE

\* !itemName is false
itemNameGiven(params) == params.itemName \notin {MissingName, ""}

NoOutcome ==
  [kind |-> "none", success |-> U, error |-> "", usingFallback |-> FALSE,
   prediction |-> NullPrediction]

\* { error: 'Item name is required', success: false }
ValidationFailure ==
  [NoOutcome EXCEPT !.kind = "failure", !.success = Bool(FALSE),
                    !.error = "Item name is required"]

\* the rule-based fallback: threshold 1, monthly, 0.033 a day, confidence 50
Fallback ==
  [NoOutcome EXCEPT
     !.kind = "fallback", !.usingFallback = TRUE,
     !.prediction = [isNull |-> FALSE, dailyConsumptionRate |-> Num(33, 1000),
                     suggestedThreshold |-> 1, suggestedFrequency |-> "monthly",
                     confidence |-> 50]]

\* { ...prediction, success: true, timestamp }
Predicted(prediction) ==
  [NoOutcome EXCEPT !.kind = "prediction", !.success = Bool(TRUE),
                    !.prediction = prediction]

NotCalled ==
  [pc |-> "start", params |-> [itemName |-> MissingName, category |-> "general",
                               householdSize |-> 2, seasonal |-> U],
   viaTimer |-> FALSE, initialized |-> "none", prediction |-> NullPrediction,
   outcome |-> NoOutcome]

\* initialize up to its await with the flag raised before the model is loaded
initializeEntryMarked(model) == [model EXCEPT !.initialized = TRUE]

\* initialize up to `await new Promise(...)`: the flags are not touched
initializeEntry(model) == model

\* initialize after the timer: ready and initialized are set together
initializeLoaded(model) == [model EXCEPT !.ready = TRUE, !.initialized = TRUE]

PredictInit ==
  /\ inventory = Array(<<>>)
  /\ suggestions = Array(<<>>)
  /\ op = "idle"
  /\ args = NoArgs
  /\ result = NoResult
  /\ predictionModel = [initialized |-> FALSE, ready |-> FALSE]
  /\ predictCalls = [c \in Callers |-> NotCalled]
  /\ contextInventory = <<>>
  /\ notifications = <<>>
  /\ newNotificationsCount = 0
  /\ shoppingCart = <<>>

predictFrame ==
  UNCHANGED <<engineVars, contextInventory, notifications,
              newNotificationsCount, shoppingCart>>

\* predictConsumptionRate(params) up to its first pending await
PredictCall(c) ==
  /\ predictCalls[c].pc = "start"
  /\ \E params \in PredictParams, random \in Randoms :
       LET call == [NotCalled EXCEPT !.params = params]
       IN  IF ~itemNameGiven(params)
           THEN /\ predictCalls' =
                     [predictCalls EXCEPT
                        ![c] = [call EXCEPT !.pc = "done",
                                            !.outcome = ValidationFailure]]
                /\ UNCHANGED predictionModel
           ELSE IF predictionModel.ready
           THEN /\ predictCalls' =
                     [predictCalls EXCEPT
                        ![c] = [call EXCEPT
                                  !.pc = "awaitPredict",
                                  !.prediction =
                                     predictBody(featuresOf(params), random)]]
                /\ UNCHANGED predictionModel
           ELSE IF predictionModel.initialized
           THEN /\ predictCalls' =
                     [predictCalls EXCEPT
                        ![c] = [call EXCEPT !.pc = "awaitInit",
                                            !.initialized = "undefined"]]
                /\ UNCHANGED predictionModel
           ELSE /\ predictCalls' =
                     [predictCalls EXCEPT
                        ![c] = [call EXCEPT !.pc = "awaitTimer",
                                            !.viaTimer = TRUE]]
                /\ predictionModel' = initializeEntry(predictionModel)
  /\ predictFrame

\* the 100 ms timer of a pending initialize fires and initialize returns true
TimerFires(c) ==
  /\ predictCalls[c].pc = "awaitTimer"
  /\ predictionModel' = initializeLoaded(predictionModel)
  /\ predictCalls' =
       [predictCalls EXCEPT ![c].pc = "awaitInit", ![c].initialized = "true"]
  /\ predictFrame

\* predict resumes after `await this.initialize()`
PredictResume(c) ==
  /\ predictCalls[c].pc = "awaitInit"
  /\ \E random \in Randoms :
       predictCalls' =
         [predictCalls EXCEPT
            ![c].pc = "awaitPredict",
            ![c].prediction =
               IF predictCalls[c].initialized # "true" THEN NullPrediction
               ELSE predictBody(featuresOf(predictCalls[c].params), random)]
  /\ UNCHANGED predictionModel
  /\ predictFrame

\* predictConsumptionRate resumes after `await predictionModel.predict(...)`
PredictReturn(c) ==
  /\ predictCalls[c].pc = "awaitPredict"
  /\ predictCalls' =
       [predictCalls EXCEPT
          ![c].pc = "done",
          ![c].outcome = IF predictCalls[c].prediction.isNull THEN Fallback
                         ELSE Predicted(predictCalls[c].prediction)]
  /\ UNCHANGED predictionModel
  /\ predictFrame

\* the caller takes the settled result and may call again
PredictCollect(c) ==
  /\ predictCalls[c].pc = "done"
  /\ predictCalls' = [predictCalls EXCEPT ![c] = NotCalled]
  /\ UNCHANGED predictionModel
  /\ predictFrame

PredictNext ==
  \E c \in Callers :
    \/ PredictCall(c)
    \/ TimerFires(c)
    \/ PredictResume(c)
    \/ PredictReturn(c)
    \/ PredictCollect(c)

PredictSpec == PredictInit /\ [][PredictNext]_vars

(***************************************************************************)
(* Properties of the predictor                                             *)
(***************************************************************************)
\* the call was given no item name, or an empty one
emptyItemName(params) == params.itemName \in {MissingName, ""}

suspended(c) == predictCalls[c].pc \in {"awaitTimer", "awaitInit", "awaitPredict"}

\* C22: every operation is synchronous: a call is never suspended between
\* its start and its result, and never waits for a timer.
C22_Synchronous == \A c \in Callers : ~suspended(c)

\* C23: every item suggest returns is bulkRecommended exactly when the
\* suggestedOrderQuantity it is returned with is at least
\* bulkPurchaseThreshold.
C23_BulkRecommended ==
  op = "suggest"
  => \A k \in 1..Len(result.items) :
       result.items[k].bulkRecommended
         = Bool(Ge(result.items[k].suggestedOrderQuantity,
                   args.bulkPurchaseThreshold))

\* the items the calculator is to itemize: not already subscribed, and a
\* purchaseFrequency other than asNeeded or at least 3 purchaseHistory entries
specifiedItemized(item) ==
  /\ ~item.hasSubscription
  /\ item.purchaseFrequency # "asNeeded" \/ item.historyLength >= 3

\* the subscription rate of a category
specifiedSubscriptionRate(category) ==
  IF category = "grocery" THEN Num(10, 100)
  ELSE IF category = "personal" THEN Num(12, 100)
  ELSE IF category = "electronics" THEN Num(5, 100)
  ELSE Num(15, 100)

\* purchases a year by frequency
specifiedAnnualPurchases(frequency) ==
  IF frequency = "daily" THEN 365
  ELSE IF frequency = "weekly" THEN 52
  ELSE IF frequency = "biweekly" THEN 26
  ELSE IF frequency = "monthly" THEN 12
  ELSE 6

\* the quantity an item is ordered in
cartQuantity(item) ==
  OrElse(item.orderQuantity, OrElse(item.suggestedOrderQuantity, Whole(1)))

\* one line of the itemization against the item it was computed from
specifiedLine(line, item) ==
  /\ line.itemId = item.id
  /\ item.price.t = "num" /\ item.price.n # 0
     => /\ line.savings
             = Mul(Mul(item.price, cartQuantity(item)),
                   specifiedSubscriptionRate(item.category))
        /\ line.annualSavings
             = Mul(line.savings,
                   Whole(specifiedAnnualPurchases(item.purchaseFrequency)))
  /\ line.recommended = Ge(line.annualSavings, Whole(20))

\* the count and the sums over an itemization
specifiedTotals(r) ==
  /\ r.recommendedItems
       = Whole(Cardinality({k \in 1..Len(r.itemizedSavings) :
                              r.itemizedSavings[k].recommended}))
  /\ r.totalSavings
       = sumSeq([k \in 1..Len(r.itemizedSavings) |->
                   r.itemizedSavings[k].savings])
  /\ r.totalAnnualSavings
       = sumSeq([k \in 1..Len(r.itemizedSavings) |->
                   r.itemizedSavings[k].annualSavings])

\* C24: subscriptionSavings itemizes exactly the items that are not already
\* subscribed and have a purchaseFrequency other than asNeeded or at least 3
\* purchaseHistory entries; a priced item saves price x quantity x rate
\* (grocery 10%, household 15%, personal 12%, electronics 5%, otherwise
\* 15%), a year 365/52/26/12/6 times that for daily/weekly/biweekly/monthly/
\* asNeeded; an item is recommended iff its annual savings are at least 20;
\* the recommended count and the totals are the count and the sums over the
\* itemization.
C24_SubscriptionSavings ==
  op = "subscriptionSavings" /\ suggestions.kind = "array"
  => LET expected == SelectSeq(suggestions.elems, specifiedItemized)
         r == result.subscription
     IN  /\ ~result.threw
         /\ Len(r.itemizedSavings) = Len(expected)
         /\ \A k \in 1..Len(expected) :
              specifiedLine(r.itemizedSavings[k], expected[k])
         /\ specifiedTotals(r)

\* no item that is not essential stands before an essential one
essentialFirst(items) ==
  \A i, j \in 1..Len(items) :
    i < j => Truthy(items[i].essential) \/ ~Truthy(items[j].essential)

\* among the essential items, and among the others, the items of listed
\* stores stand in the order of the stores' ranks and before the items of
\* the stores that are not listed
storeRankOrder(items, preferredStores) ==
  \A i, j \in 1..Len(items) :
    /\ i < j
    /\ Truthy(items[i].essential) = Truthy(items[j].essential)
    /\ indexOf(preferredStores, items[j].store) # -1
    => /\ indexOf(preferredStores, items[i].store) # -1
       /\ indexOf(preferredStores, items[i].store)
            <= indexOf(preferredStores, items[j].store)

\* C26: with preference cost or time every essential item of the list that
\* optimize returns stands before every item that is not essential, whatever
\* the items lack and also after the budget filter and the item limit; with
\* preference time and preferred stores given, the items of listed stores
\* stand by rank, and before the items of other stores, within the essential
\* items and within the others.
C26_EssentialFirst ==
  op = "optimize" /\ args.preference \in {"cost", "time"}
  => /\ essentialFirst(result.items)
     /\ args.preference = "time" /\ Len(args.preferredStores) > 0
        => storeRankOrder(result.items, args.preferredStores)

\* a time-ordered list of two essential items that were handed over in the
\* other order: the second store of the preference list before the first
C26_Witness ==
  /\ op = "optimize"
  /\ args.preference = "time"
  /\ args.preferredStores = <<"store-b", "store-a">>
  /\ args.budget # Null /\ args.maxItems # Null
  /\ result.success
  /\ Len(result.items) = 2
  /\ result.items[1].id = 2 /\ result.items[1].store = "store-b"
  /\ result.items[2].id = 1 /\ result.items[2].store = "store-a"
  /\ Truthy(result.items[1].essential) /\ Truthy(result.items[2].essential)

\* the label an item without one is to get
specifiedEssential(item) ==
  \/ item.quantity = Whole(0)
  \/ Le(item.quantity, item.minThreshold)
  \/ item.purchaseFrequency \in {"daily", "weekly"}
  \/ item.category \in {"grocery", "household"}
  \/ item.urgency \in {"high", "critical"}

\* a returned item against the suggestion it was made from
specifiedLabel(labelled, given) ==
  IF given.essential # U THEN labelled.essential = given.essential
  ELSE labelled.essential = Bool(specifiedEssential(given))

\* C27: an item handed to optimize with an essential label is returned with
\* that label; any other item is returned labelled essential exactly when its
\* quantity is 0 or at most minThreshold, its purchaseFrequency is daily or
\* weekly, its category is grocery or household, or its urgency is high or
\* critical; with includeNonEssentials false only essential items are
\* returned.
C27_EssentialLabels ==
  op = "optimize"
  => \A k \in 1..Len(result.items) :
       /\ specifiedLabel(result.items[k],
                         suggestions.elems[result.items[k].id])
       /\ ~args.includeNonEssentials
          => result.items[k].essential = Bool(TRUE)

\* a list without the non-essential items in which one item kept the label
\* it came with, against the rule, and another was labelled by the rule
C27_Witness ==
  /\ op = "optimize"
  /\ ~args.includeNonEssentials
  /\ result.success
  /\ \E k \in 1..Len(result.items) :
       LET given == suggestions.elems[result.items[k].id]
       IN  given.essential = Bool(TRUE) /\ ~specifiedEssential(given)
  /\ \E k \in 1..Len(result.items) :
       suggestions.elems[result.items[k].id].essential = U

\* C28: however concurrent predictConsumptionRate calls on the one model
\* interleave, calls that start while an earlier one still awaits
\* initialize included: ready holds exactly when initialized holds, a model
\* that is ready stays ready, and no call with an itemName ends with the
\* fallback result or with a null prediction.
C28_ConcurrentPredict ==
  /\ [](predictionModel.ready <=> predictionModel.initialized)
  /\ [][predictionModel.ready => predictionModel'.ready]_vars
  /\ [](\A c \in Callers :
          /\ predictCalls[c].pc = "done"
          /\ ~emptyItemName(predictCalls[c].params)
          => /\ predictCalls[c].outcome.kind = "prediction"
             /\ ~predictCalls[c].outcome.usingFallback
             /\ ~predictCalls[c].outcome.prediction.isNull)

\* two calls that each waited for their own timer, the later one started
\* while the earlier one was waiting, have both returned a prediction
C28_Witness ==
  \E c, d \in Callers :
    /\ c # d
    /\ predictCalls[c].pc = "done" /\ predictCalls[d].pc = "done"
    /\ predictCalls[c].viaTimer /\ predictCalls[d].viaTimer
    /\ predictCalls[c].outcome.kind = "prediction"
    /\ predictCalls[d].outcome.kind = "prediction"
    /\ predictionModel.ready /\ predictionModel.initialized

(***************************************************************************)
(* The inventory context and the CSV import of ImportExport.  The context   *)
(* holds the inventory as React state: addItem and updateItem queue         *)
(* functional updates, which are applied in order to the latest state,      *)
(* while a handler reads the inventory of the render it was created in.     *)
(***************************************************************************)
\* a merge import is taken while the inventory and the file together hold
\* at most this many items
MaxInventory == 3

\* a file holds at most this many rows
MaxRows == 2

\* a row of setInventory(data) carries no id
NoId == 0

\* String.prototype.toLowerCase on the names of the model
toLowerCase(name) == IF name = "Milk" THEN "milk" ELSE name

\* the valid rows validateCSVData hands on: name, unit and a parsed quantity
CsvRows ==
  {[name |-> "milk", unit |-> "l", quantity |-> 1],
   [name |-> "Milk", unit |-> "l", quantity |-> 2],
   [name |-> "eggs", unit |-> "l", quantity |-> 1],
   [name |-> "milk", unit |-> "pcs", quantity |-> 1]}

CsvFiles == UNION {[1..n -> CsvRows] : n \in 1..MaxRows}

\* an inventory item made from a row
itemOf(row, id) ==
  [id |-> id, name |-> row.name, unit |-> row.unit, quantity |-> row.quantity,
   purchaseHistory |-> <<>>]

\* InventoryContext.addItem as a functional update
addItem(prevInventory, item) == Append(prevInventory, item)

\* InventoryContext.updateItem as a functional update
updateItem(prevInventory, updatedItem) ==
  [i \in 1..Len(prevInventory) |->
     IF prevInventory[i].id = updatedItem.id THEN updatedItem
     ELSE prevInventory[i]]

\* inventory.findIndex by lower-cased name and unit: the first match, 0 for
\* the -1 of no match
findExisting(rendered, importItem) ==
  LET matches == {i \in 1..Len(rendered) :
                    /\ toLowerCase(rendered[i].name)
                         = toLowerCase(importItem.name)
                    /\ rendered[i].unit = importItem.unit}
  IN  IF matches = {} THEN 0
      ELSE CHOOSE i \in matches : \A j \in matches : i <= j

\* the forEach callback of the merge branch: rendered is the inventory the
\* handler closed over, current the state the queued updates have produced
\* so far, now the value of Date.now() at this row
mergeRow(current, rendered, importItem, now) ==
  LET existingItemIndex == findExisting(rendered, importItem)
  IN  IF existingItemIndex >= 1
      THEN updateItem(current,
                      [itemOf(importItem, rendered[existingItemIndex].id)
                         EXCEPT !.purchaseHistory =
                                   rendered[existingItemIndex].purchaseHistory])
      ELSE addItem(current, itemOf(importItem, now))

\* data.forEach over the rows k..Len(data); clock[k] is Date.now() at row k
RECURSIVE mergeRows(_, _, _, _, _)
mergeRows(current, rendered, data, clock, k) ==
  IF k > Len(data) THEN current
  ELSE mergeRows(mergeRow(current, rendered, data[k], clock[k]), rendered,
                 data, clock, k + 1)

\* the largest id in use, which every later Date.now() exceeds
lastId(inv) ==
  IF inv = <<>> THEN 0
  ELSE CHOOSE n \in {inv[i].id : i \in 1..Len(inv)} :
         \A i \in 1..Len(inv) : inv[i].id <= n

\* the readings of Date.now() during one forEach: later than every id in
\* use, and from row to row the same millisecond or a later one
clocksAfter(inv, n) ==
  {clock \in [1..n -> (lastId(inv) + 1)..(lastId(inv) + n)] :
     /\ clock[1] = lastId(inv) + 1
     /\ \A k \in 2..n : clock[k] \in {clock[k - 1], clock[k - 1] + 1}}

\* handleImport once the file is parsed and valid
importInto(inv, mode, data, clock) ==
  IF mode = "replace" THEN [k \in 1..Len(data) |-> itemOf(data[k], NoId)]
  ELSE mergeRows(inv, inv, data, clock, 1)

ImportInit ==
  /\ inventory = Array(<<>>)
  /\ suggestions = Array(<<>>)
  /\ op = "idle"
  /\ args = NoArgs
  /\ result = NoResult
  /\ ComponentsAtRest

handleImport ==
  \E mode \in {"merge", "replace"}, data \in CsvFiles :
    \E clock \in clocksAfter(contextInventory, Len(data)) :
      /\ mode = "merge" => Len(contextInventory) + Len(data) <= MaxInventory
      /\ contextInventory' = importInto(contextInventory, mode, data, clock)
      /\ op' = "import"
      /\ args' = [mode |-> mode, data |-> data]
      /\ UNCHANGED <<inventory, suggestions, result, predictionModel,
                     predictCalls, notifications, newNotificationsCount,
                     shoppingCart>>

ImportNext == handleImport

ImportSpec == ImportInit /\ [][ImportNext]_vars

\* no two items of the inventory agree in name, letter case aside, and unit
noDuplicateItems(inv) ==
  \A i, j \in 1..Len(inv) :
    /\ toLowerCase(inv[i].name) = toLowerCase(inv[j].name)
    /\ inv[i].unit = inv[j].unit
    => i = j

\* C25: a merge import into an inventory without two items of the same name
\* (case-insensitive) and unit leaves an inventory without two such items,
\* whatever the file holds, two rows of the same name and unit included.
C25_MergeKeepsItemsUnique ==
  [][(/\ op' = "import"
      /\ args'.mode = "merge"
      /\ noDuplicateItems(contextInventory))
     => noDuplicateItems(contextInventory')]_vars

(***************************************************************************)
(* The Notification component: the list of notifications and the badge      *)
(* counter newNotificationsCount, both React state, and the handlers that    *)
(* change them.  The component reads the inventory of the context.          *)
(***************************************************************************)
\* notifications are generated while the list holds at most this many
MaxNotifications == 7

\* the readings of the clock at which notifications are generated
MaxClock == 2

\* what the component reads of an inventory item: the fields of the
\* calculations and the two aiMetadata flags
watched(item, seasonal, recommendSubscription) ==
  [item |-> item, seasonal |-> seasonal,
   recommendSubscription |-> recommendSubscription]

OutOfStockItem == [Base EXCEPT !.quantity = Whole(0), !.minThreshold = Whole(1)]

LowItem ==
  [Base EXCEPT !.quantity = Whole(1), !.minThreshold = Whole(2),
               !.dailyConsumptionRate = Whole(1)]

StockedItem ==
  [Base EXCEPT !.quantity = Whole(5), !.minThreshold = Whole(1),
               !.dailyConsumptionRate = Num(1, 10)]

LowGrocery ==
  [LowItem EXCEPT !.category = "grocery", !.price = Whole(10)]

\* the inventories the component is mounted with
NotificationInventories ==
  {<<>>,
   <<watched(OutOfStockItem, FALSE, FALSE)>>,
   <<watched(LowItem, TRUE, FALSE)>>,
   <<watched(StockedItem, FALSE, TRUE)>>,
   <<watched(StockedItem, FALSE, FALSE)>>,
   <<watched(OutOfStockItem, FALSE, FALSE), watched(StockedItem, FALSE, TRUE)>>,
   <<watched(LowGrocery, FALSE, FALSE), watched(LowGrocery, FALSE, FALSE),
     watched(LowGrocery, FALSE, FALSE)>>}

\* the items with their position as id
watchedWithIds(inv) ==
  [i \in 1..Len(inv) |-> [inv[i] EXCEPT !.item.id = i]]

\* shouldNotify of calculations_old.js, the only function of that name
shouldNotify(w) ==
  \/ StrictEq(w.item.quantity, Whole(0))
  \/ Le(w.item.quantity, w.item.minThreshold)
  \/ w.recommendSubscription /\ ~w.item.hasSubscription
  \/ /\ w.item.historyLength >= 3
     /\ ~w.item.hasSubscription
     /\ w.item.purchaseFrequency # "asNeeded"

\* a notification as it is pushed: unread, with its action buttons
notification(type, itemId, now, actions) ==
  [id |-> <<type, itemId, now>>, type |-> type, itemId |-> itemId,
   actions |-> actions, read |-> FALSE, handled |-> FALSE]

\* the forEach callback: the stock notification of an item, if any, and the
\* subscription recommendation
itemNotifications(w, now) ==
  (IF StrictEq(w.item.quantity, Whole(0))
   THEN <<notification("outofstock", w.item.id, now,
                       <<"add-to-cart", "dismiss">>)>>
   ELSE IF /\ Le(w.item.quantity, w.item.minThreshold)
           /\ Le(calculateDaysLeft(w.item), Whole(7))
   THEN <<notification("lowstock", w.item.id, now,
                       <<"add-to-cart", "dismiss">>)>>
   ELSE <<>>)
  \o (IF shouldNotify(w)
      THEN <<notification("subscription", w.item.id, now,
                          <<"setup-subscription", "not-now", "dismiss">>)>>
      ELSE <<>>)

RECURSIVE flatten(_)
flatten(lists) ==
  IF lists = <<>> THEN <<>> ELSE Head(lists) \o flatten(Tail(lists))

\* the bulk purchase notification: three or more low, priced grocery items
bulkNotifications(inv, now) ==
  IF Cardinality({i \in 1..Len(inv) :
                    /\ Le(inv[i].item.quantity, inv[i].item.minThreshold)
                    /\ inv[i].item.category = "grocery"
                    /\ Gt(inv[i].item.price, Whole(0))}) >= 3
  THEN <<notification("bulk-savings", NoId, now, <<"view-details", "dismiss">>)>>
  ELSE <<>>

\* the seasonal notifications: seasonal items below twice their threshold
seasonalNotifications(inv, now) ==
  flatten([i \in 1..Len(inv) |->
             IF /\ inv[i].seasonal
                /\ Lt(inv[i].item.quantity,
                      Mul(inv[i].item.minThreshold, Whole(2)))
             THEN <<notification("seasonal", inv[i].item.id, now,
                                 <<"stock-up", "dismiss">>)>>
             ELSE <<>>])

\* newNotifications at the end of generateNotifications
newNotifications(inv, now) ==
  flatten([i \in 1..Len(inv) |-> itemNotifications(inv[i], now)])
  \o bulkNotifications(inv, now)
  \o seasonalNotifications(inv, now)

\* the new notifications whose id is not in the list yet
filtered(prev, new) ==
  SelectSeq(new, LAMBDA n : \A k \in 1..Len(prev) : prev[k].id # n.id)

\* the time of the latest notification of the list, 0 for an empty list
lastTime(list) ==
  IF list = <<>> THEN 0
  ELSE CHOOSE t \in {list[k].id[3] : k \in 1..Len(list)} :
         \A k \in 1..Len(list) : list[k].id[3] <= t

NotificationInit ==
  /\ inventory = Array(<<>>)
  /\ suggestions = Array(<<>>)
  /\ op = "idle"
  /\ args = NoArgs
  /\ result = NoResult
  /\ predictionModel = [initialized |-> FALSE, ready |-> FALSE]
  /\ predictCalls = <<>>
  /\ contextInventory \in {watchedWithIds(inv) : inv \in NotificationInventories}
  /\ notifications = <<>>
  /\ newNotificationsCount = 0
  /\ shoppingCart = <<>>

notificationFrame ==
  UNCHANGED <<inventory, suggestions, args, result, predictionModel,
              predictCalls, contextInventory, shoppingCart>>

\* generateNotifications, run by the effect and by the hourly interval.
\* shouldNotify is imported from utils/calculations, which in calculations.js
\* exports no such name: either the name is bound to the function of
\* calculations_old.js, or it is undefined and the first call throws before
\* any state is set.
generateNotifications ==
  /\ contextInventory # <<>>
  /\ \E now \in 1..MaxClock, bound \in BOOLEAN :
       LET new == newNotifications(contextInventory, now)
           added == filtered(notifications, new)
       IN  /\ now >= lastTime(notifications)
           /\ Len(notifications) + Len(new) <= MaxNotifications
           /\ IF bound /\ Len(new) > 0
              THEN /\ notifications' = added \o notifications
                   /\ newNotificationsCount' = newNotificationsCount + Len(added)
              ELSE UNCHANGED <<notifications, newNotificationsCount>>
  /\ op' = "generateNotifications"
  /\ notificationFrame

\* the notifications after the action's own update, the read flag being set
afterAction(list, notificationId, action) ==
  LET read == [k \in 1..Len(list) |->
                 IF list[k].id = notificationId
                 THEN [list[k] EXCEPT !.read = TRUE] ELSE list[k]]
  IN  IF action \in {"dismiss", "setup-subscription", "stock-up"}
      THEN SelectSeq(read, LAMBDA n : n.id # notificationId)
      ELSE IF action = "add-to-cart"
      THEN [k \in 1..Len(read) |->
              IF read[k].id = notificationId
              THEN [read[k] EXCEPT !.handled = TRUE] ELSE read[k]]
      ELSE read

\* setNewNotificationsCount(count => Math.max(0, count - 1))
countAfterAction(count, list, notificationId) ==
  IF count - 1 > 0 THEN count - 1 ELSE 0

\* handleAction(notification.id, action, notification.itemId), from a button
\* of a listed notification
handleAction ==
  /\ \E k \in 1..Len(notifications) :
       \E a \in 1..Len(notifications[k].actions) :
         /\ notifications' =
              afterAction(notifications, notifications[k].id,
                          notifications[k].actions[a])
         /\ newNotificationsCount' =
              countAfterAction(newNotificationsCount, notifications,
                               notifications[k].id)
  /\ op' = "handleAction"
  /\ notificationFrame

markAllAsRead ==
  /\ notifications' =
       [k \in 1..Len(notifications) |-> [notifications[k] EXCEPT !.read = TRUE]]
  /\ newNotificationsCount' = 0
  /\ op' = "markAllAsRead"
  /\ notificationFrame

clearAllNotifications ==
  /\ notifications' = <<>>
  /\ newNotificationsCount' = 0
  /\ op' = "clearAllNotifications"
  /\ notificationFrame

NotificationNext ==
  \/ generateNotifications
  \/ handleAction
  \/ markAllAsRead
  \/ clearAllNotifications

NotificationSpec == NotificationInit /\ [][NotificationNext]_vars

\* the notifications of the list that are not read
unread(list) == {k \in 1..Len(list) : ~list[k].read}

MaxOrderQuantity == 3

\* an order is processed while no purchaseHistory is longer than this
MaxHistory == 1

\* the quantities the suggestions come with
SuggestedQuantities == {1, 2}

\* the price the suggestions come with
SuggestedPrice == 10

\* the inventories the component is used with: what an import into the
\* empty inventory leaves (items added by a merge import carry the reading
\* of Date.now() as id, items of a replace import carry no id)
CartInventories ==
  UNION {{importInto(<<>>, mode, data, clock) :
            clock \in clocksAfter(<<>>, Len(data))} :
           mode \in {"merge", "replace"},
           data \in {file \in CsvFiles : noDuplicateItems(file)}}

\* the suggestions shown for an inventory: one for an item, with a
\* suggestedOrderQuantity and a price (the list the component renders when
\* calculateReorderSuggestions hands it an array, as calculations_old.js does)
suggestionsFor(inv) ==
  {[id |-> inv[i].id, name |-> inv[i].name, unit |-> inv[i].unit,
    suggestedOrderQuantity |-> q, price |-> SuggestedPrice] :
     i \in 1..Len(inv), q \in SuggestedQuantities}

\* shoppingCart.findIndex by id, 0 for the -1 of no match
findInCart(cart, id) ==
  LET matches == {k \in 1..Len(cart) : cart[k].id = id}
  IN  IF matches = {} THEN 0
      ELSE CHOOSE k \in matches : \A j \in matches : k <= j

\* the cart handleAddToCart sets
addToCart(cart, item) ==
  LET existingItemIndex == findInCart(cart, item.id)
  IN  IF existingItemIndex >= 1
      THEN [cart EXCEPT ![existingItemIndex].orderQuantity =
                           @ + item.suggestedOrderQuantity]
      ELSE Append(cart, [id |-> item.id, name |-> item.name,
                         orderQuantity |-> item.suggestedOrderQuantity,
                         unit |-> item.unit, price |-> item.price])

\* the cart handleRemoveFromCart sets
removeFromCart(cart, itemId) == SelectSeq(cart, LAMBDA e : e.id # itemId)

\* inventory.find by id, 0 for undefined
findInInventory(rendered, id) ==
  LET matches == {i \in 1..Len(rendered) : rendered[i].id = id}
  IN  IF matches = {} THEN 0
      ELSE CHOOSE i \in matches : \A j \in matches : i <= j

\* the forEach callback of handleProcessOrder: rendered is the inventory the
\* handler closed over, current the state the queued updates have produced
processEntry(current, rendered, cartItem) ==
  LET found == findInInventory(rendered, cartItem.id)
  IN  IF found = 0 THEN current
      ELSE updateItem(current,
             [rendered[found] EXCEPT
                !.quantity = @ + cartItem.orderQuantity,
                !.purchaseHistory =
                   Append(@, [quantity |-> cartItem.orderQuantity,
                              price |-> cartItem.price])])

\* shoppingCart.forEach over the entries k..Len(cart)
RECURSIVE processEntries(_, _, _, _)
processEntries(current, rendered, cart, k) ==
  IF k > Len(cart) THEN current
  ELSE processEntries(processEntry(current, rendered, cart[k]), rendered,
                      cart, k + 1)

CartInit ==
  /\ inventory = Array(<<>>)
  /\ suggestions = Array(<<>>)
  /\ op = "idle"
  /\ args = NoArgs
  /\ result = NoResult
  /\ predictionModel = [initialized |-> FALSE, ready |-> FALSE]
  /\ predictCalls = <<>>
  /\ contextInventory \in CartInventories
  /\ notifications = <<>>
  /\ newNotificationsCount = 0
  /\ shoppingCart = <<>>

cartFrame ==
  UNCHANGED <<inventory, suggestions, args, result, predictionModel,
              predictCalls, notifications, newNotificationsCount>>

handleAddToCart ==
  /\ \E item \in suggestionsFor(contextInventory) :
       /\ \A k \in 1..Len(shoppingCart) :
            shoppingCart[k].id = item.id
            => shoppingCart[k].orderQuantity + item.suggestedOrderQuantity
                 <= MaxOrderQuantity
       /\ shoppingCart' = addToCart(shoppingCart, item)
  /\ op' = "addToCart"
  /\ UNCHANGED contextInventory
  /\ cartFrame

handleRemoveFromCart ==
  /\ \E k \in 1..Len(shoppingCart) :
       shoppingCart' = removeFromCart(shoppingCart, shoppingCart[k].id)
  /\ op' = "removeFromCart"
  /\ UNCHANGED contextInventory
  /\ cartFrame

handleProcessOrder ==
  /\ \A i \in 1..Len(contextInventory) :
       Len(contextInventory[i].purchaseHistory) <= MaxHistory
  /\ contextInventory' =
       processEntries(contextInventory, contextInventory, shoppingCart, 1)
  /\ shoppingCart' = <<>>
  /\ op' = "processOrder"
  /\ cartFrame

CartNext ==
  \/ handleAddToCart
  \/ handleRemoveFromCart
  \/ handleProcessOrder

CartSpec == CartInit /\ [][CartNext]_vars

\* the cart holds at most one entry for an item id
oneEntryPerItem(cart) ==
  \A j, k \in 1..Len(cart) : cart[j].id = cart[k].id => j = k

\* an inventory item after an order against the item before it: ordered
\* entry is the cart entry of its id
ordered(before, after, entry) ==
  /\ after.quantity = before.quantity + entry.orderQuantity
  /\ Len(after.purchaseHistory) = Len(before.purchaseHistory) + 1
  /\ SubSeq(after.purchaseHistory, 1, Len(before.purchaseHistory))
       = before.purchaseHistory
  /\ after.purchaseHistory[Len(after.purchaseHistory)].quantity
       = entry.orderQuantity
  /\ after.id = before.id /\ after.name = before.name
  /\ after.unit = before.unit

\* the inventory after an order against the inventory and the cart before
orderProcessed(inv, cart, invAfter) ==
  /\ Len(invAfter) = Len(inv)
  /\ \A i \in 1..Len(inv) :
       IF \E k \in 1..Len(cart) : cart[k].id = inv[i].id
       THEN \A k \in 1..Len(cart) :
              cart[k].id = inv[i].id => ordered(inv[i], invAfter[i], cart[k])
       ELSE invAfter[i] = inv[i]

====
